---- MODULE Spec2Model ----
(***************************************************************************)
(* Model of the web console asset server's request handlers                *)
(* (pkg/assets/handlers.go): GzipHandler, SecurityHeadersHandler,          *)
(* HTML5ModeHandler and generateEtag, assembled as in                      *)
(* pkg/assets/apiserver/asset_apiserver.go (buildAssetHandler).            *)
(*                                                                         *)
(* Go strings and byte slices are TLA+ strings; http.Header is a function  *)
(* from header names to sequences of values.                               *)
(***************************************************************************)
EXTENDS Integers, Sequences, FiniteSets, TLC

VARIABLES
    config,     \* arguments the handler chain is built from
    handler,    \* what HTML5ModeHandler's constructor returned
    last,       \* the most recent request/response exchange
    prev,       \* the exchange before it
    etagCall,   \* a direct call of generateEtag: its arguments and result
    server,     \* what completedConfig.New returned, and the routes of its mux
    configHandler, \* GeneratedConfigHandler: its arguments, the document it rendered
    cmd,        \* the start command: its flag and files, its options, how far it got
    completeCall, \* a direct call of AssetServerConfig.Complete: receiver, client, result
    procs,      \* the requests in flight in the running server, each with its position
    wrappers    \* the gzip wrappers allocated for the requests in flight

vars == <<config, handler, last, prev, etagCall, server, configHandler,
          cmd, completeCall, procs, wrappers>>

----------------------------------------------------------------------------
(* Strings *)

\* strings.HasPrefix
HasPrefix(s, p) == Len(p) <= Len(s) /\ SubSeq(s, 1, Len(p)) = p

\* strings.HasSuffix
HasSuffix(s, p) == Len(p) <= Len(s) /\ SubSeq(s, Len(s) - Len(p) + 1, Len(s)) = p

\* strings.TrimPrefix
TrimPrefix(s, p) == IF HasPrefix(s, p) THEN SubSeq(s, Len(p) + 1, Len(s)) ELSE s

\* strings.Index, 1-based; 0 when sub does not occur in s
RECURSIVE IndexFrom(_, _, _)
IndexFrom(s, sub, i) ==
    IF i + Len(sub) - 1 > Len(s) THEN 0
    ELSE IF SubSeq(s, i, i + Len(sub) - 1) = sub THEN i
    ELSE IndexFrom(s, sub, i + 1)

Index(s, sub) == IndexFrom(s, sub, 1)

\* strings.Contains
Contains(s, sub) == Index(s, sub) # 0

\* bytes.Replace(s, old, new, 1): the first occurrence only
Replace1(s, old, new) ==
    LET i == Index(s, old)
    IN  IF i = 0 THEN s
        ELSE SubSeq(s, 1, i - 1) \o new \o SubSeq(s, i + Len(old), Len(s))

\* the character at position i, as a string of length 1
CharAt(s, i) == SubSeq(s, i, i)

\* printable ASCII in code order: codes 32..95 and 97..126
AsciiLow == " !\"#$%&'()*+,-./0123456789:;<=>?@ABCDEFGHIJKLMNOPQRSTUVWXYZ[\\]^_"

AsciiHigh == "abcdefghijklmnopqrstuvwxyz{|}~"

\* the byte value of each printable character
OrdTable ==
    [c \in {CharAt(AsciiLow, i) : i \in 1..Len(AsciiLow)}
            \cup {CharAt(AsciiHigh, i) : i \in 1..Len(AsciiHigh)} |->
        IF Index(AsciiLow, c) # 0 THEN 31 + Index(AsciiLow, c) ELSE 96 + Index(AsciiHigh, c)]

Ord(c) == OrdTable[c]

HexTable == "0123456789abcdef"

\* hex.EncodeToString: two lowercase digits per byte, high nibble first
HexByte(b) == CharAt(HexTable, (b \div 16) + 1) \o CharAt(HexTable, (b % 16) + 1)

RECURSIVE HexEncode(_)
HexEncode(s) == IF s = "" THEN "" ELSE HexByte(Ord(Head(s))) \o HexEncode(Tail(s))

\* the regexp class \s
IsSpace(c) == c \in {" ", "\t", "\n", "\r", "\f"}

\* the number of leading \s characters of s
RECURSIVE SpaceRun(_)
SpaceRun(s) == IF s # "" /\ IsSpace(Head(s)) THEN 1 + SpaceRun(Tail(s)) ELSE 0

\* the leftmost match of \s*,\s* in s: <<first, last>> positions, <<0, 0>> if none
VaryMatch(s) ==
    LET starts == {i \in 1..Len(s) :
                     LET n == SpaceRun(SubSeq(s, i, Len(s)))
                     IN  i + n <= Len(s) /\ CharAt(s, i + n) = ","}
    IN  IF starts = {} THEN <<0, 0>>
        ELSE LET i == CHOOSE k \in starts : \A j \in starts : k <= j
                 c == i + SpaceRun(SubSeq(s, i, Len(s)))
             IN  <<i, c + SpaceRun(SubSeq(s, c + 1, Len(s)))>>

\* varyHeaderRegexp.Split(s, -1)
RECURSIVE VarySplit(_)
VarySplit(s) ==
    LET m == VaryMatch(s)
    IN  IF m[1] = 0 THEN <<s>>
        ELSE <<SubSeq(s, 1, m[1] - 1)>> \o VarySplit(SubSeq(s, m[2] + 1, Len(s)))

\* html.EscapeString
RECURSIVE EscapeString(_)
EscapeString(s) ==
    IF s = "" THEN ""
    ELSE LET c == Head(s)
             e == CASE c = "&"  -> "&amp;"
                    [] c = "'"  -> "&#39;"
                    [] c = "<"  -> "&lt;"
                    [] c = ">"  -> "&gt;"
                    [] c = "\"" -> "&#34;"
                    [] OTHER    -> c
         IN  e \o EscapeString(Tail(s))

\* path.Join(a, b) for a rooted directory a and a relative, dot-free b: the
\* elements joined by one slash, with no trailing slash unless the result is "/"
RECURSIVE TrimSlashes(_)
TrimSlashes(s) == IF s # "/" /\ HasSuffix(s, "/") THEN TrimSlashes(SubSeq(s, 1, Len(s) - 1)) ELSE s

PathJoin(a, b) ==
    IF b = "" THEN TrimSlashes(a)
    ELSE IF TrimSlashes(a) = "/" THEN "/" \o TrimSlashes(b)
    ELSE TrimSlashes(a) \o "/" \o TrimSlashes(b)

----------------------------------------------------------------------------
(* http.Header *)

\* Header.Get: the first value, "" when there is none
HGet(h, k) == IF k \in DOMAIN h /\ h[k] # <<>> THEN h[k][1] ELSE ""

\* Header.Add
HAdd(h, k, v) == [h EXCEPT ![k] = Append(@, v)]

\* Header.Set
HSet(h, k, v) == [h EXCEPT ![k] = <<v>>]

----------------------------------------------------------------------------
(* The asset store and the handler configuration *)

\* the embedded assets (bindata): logical path -> content
AssetContent ==
    [p \in {"index.html", "java/index.html", "scripts/vendor.js", "java/app.js"} |->
        CASE p = "index.html"      -> "<head><base href=\"/\"></head><body>console</body>"
          [] p = "java/index.html" -> "<head><base href=\"/\"></head><body>java</body>"
          [] OTHER                 -> "js();"]

\* AssetFunc: whether the lookup of path returns no error
AssetFound(path) == path \in DOMAIN AssetContent

\* the handlers a chain is made of, outermost first; the terminal handler
\* (stubHandler) ends every chain
Chains ==
    { <<"html5">>,
      <<"gzip", "html5">>,
      <<"gzip", "security", "html5">>,
      <<"gzip">> }

\* the chain of the gzip tests whose wrapped handler is written inline
InlineChain == <<"gzip", "inline">>

MaxWrites == 2

\* the byte strings a wrapped handler passes to w.Write
Chunks == {"foo", "bar", "<html>", ""}

\* the sequences of writes a wrapped handler makes
WriteSeqs == UNION { [1..n -> Chunks] : n \in 0..MaxWrites }

\* an inline wrapped handler: Vary: Foo added or not, a Content-Type set or
\* not (as GeneratedConfigHandler's handler sets one), one w.Write per chunk,
\* then a return or a panic
InlineHandlers ==
    { [varyFoo |-> v, contentType |-> ct, writes |-> ws, panics |-> p] :
      v \in BOOLEAN, ct \in {"", "application/javascript"},
      ws \in WriteSeqs, p \in BOOLEAN }

\* subcontext -> index asset, as passed to HTML5ModeHandler
SubcontextMaps ==
    { [k \in {""} |-> "index.html"],
      [k \in {"", "java"} |-> IF k = "" THEN "index.html" ELSE "java/index.html"],
      [k \in {"java", "java/foo"} |-> "java/index.html"],
      [k \in {"", "java", "java/foo"} |-> IF k = "" THEN "index.html" ELSE "java/index.html"],
      [k \in {"", "java"} |-> IF k = "" THEN "index.html" ELSE "java/missing.html"] }

ExtensionScripts == <<"https://e.com/a.js?x=1&y=2", "https://e.com/b.js">>

ExtensionStylesheets == <<"https://e.com/<a>.css">>

\* the arguments of one assembly of the chain: the tests mount the console at
\* /console/ without extensions, the assembled server at its public URL's path
Configs ==
    { [chain |-> c, subcontextMap |-> m,
       contextRoot |-> IF Len(c) = 3 THEN "/" ELSE "/console/",
       extensionScripts |-> IF Len(c) = 3 THEN ExtensionScripts ELSE <<>>,
       extensionStylesheets |-> IF Len(c) = 3 THEN ExtensionStylesheets ELSE <<>>,
       version |-> "1234",
       response |-> IF Len(c) = 3 THEN "" ELSE "hello",
       inline |-> [varyFoo |-> FALSE, contentType |-> "", writes |-> <<>>, panics |-> FALSE]] :
      c \in Chains, m \in SubcontextMaps }
    \cup
    { [chain |-> InlineChain, subcontextMap |-> [k \in {""} |-> "index.html"],
       contextRoot |-> "/console/",
       extensionScripts |-> <<>>, extensionStylesheets |-> <<>>,
       version |-> "1234",
       response |-> "hello",
       inline |-> h] :
      h \in InlineHandlers }

UsesHTML5(cfg) == \E i \in 1..Len(cfg.chain) : cfg.chain[i] = "html5"

NoData == [k \in {} |-> ""]

NoHandler == [state |-> "none", subcontextData |-> NoData, subcontexts |-> <<>>]

----------------------------------------------------------------------------
(* HTML5ModeHandler: construction *)

\* addExtensionScripts' loop: one script tag per URL, in order
RECURSIVE ScriptTags(_)
ScriptTags(urls) ==
    IF urls = <<>> THEN ""
    ELSE "<script src=\"" \o EscapeString(Head(urls)) \o "\"></script>\n"
             \o ScriptTags(Tail(urls))

addExtensionScripts(content, extensionScripts) ==
    Replace1(content, "</body>", ScriptTags(extensionScripts) \o "</body>")

\* addExtensionStylesheets' loop: one link tag per URL, in order
RECURSIVE StyleTags(_)
StyleTags(urls) ==
    IF urls = <<>> THEN ""
    ELSE "<link rel=\"stylesheet\" href=\"" \o EscapeString(Head(urls)) \o "\">\n"
             \o StyleTags(Tail(urls))

addExtensionStylesheets(content, extensionStylesheets) ==
    Replace1(content, "</head>", StyleTags(extensionStylesheets) \o "</head>")

\* the mount path of a subcontext, with exactly one trailing slash
BasePath(contextRoot, subcontext) ==
    LET base == PathJoin(contextRoot, subcontext)
    IN  IF HasSuffix(base, "/") THEN base ELSE base \o "/"

\* a loop body that injects the extensions into every subcontext's document
DeriveIndex_EverySubcontext(cfg, subcontext, b) ==
    addExtensionStylesheets(
        addExtensionScripts(
            Replace1(b, "<base href=\"/\">",
                     "<base href=\"" \o BasePath(cfg.contextRoot, subcontext) \o "\">"),
            cfg.extensionScripts),
        cfg.extensionStylesheets)

\* the body of the constructor's loop: the index document served for subcontext
DeriveIndex(cfg, subcontext, b) ==
    LET b1 == Replace1(b, "<base href=\"/\">",
                       "<base href=\"" \o BasePath(cfg.contextRoot, subcontext) \o "\">")
        b2 == IF subcontext = "" /\ Len(cfg.extensionScripts) > 0
              THEN addExtensionScripts(b1, cfg.extensionScripts) ELSE b1
    IN  IF subcontext = "" /\ Len(cfg.extensionStylesheets) > 0
        THEN addExtensionStylesheets(b2, cfg.extensionStylesheets) ELSE b2

\* the constructor's loop over the map in iteration order `order`; it returns
\* at the first index asset the lookup fails for
RECURSIVE BuildLoop(_, _, _, _)
BuildLoop(cfg, order, data, subs) ==
    IF order = <<>> THEN [err |-> FALSE, data |-> data, subs |-> subs]
    ELSE LET subcontext == Head(order)
             index == cfg.subcontextMap[subcontext]
         IN  IF ~AssetFound(index)
             THEN [err |-> TRUE, data |-> NoData, subs |-> <<>>]
             ELSE BuildLoop(cfg, Tail(order),
                            (subcontext :> DeriveIndex(cfg, subcontext, AssetContent[index])) @@ data,
                            Append(subs, subcontext))

\* a comparison the wrong way round: shortest first
Less_ShortestFirst(s, i, j) == Len(s[i]) < Len(s[j])

\* LongestToShortest.Less
Less(s, i, j) == Len(s[i]) > Len(s[j])

\* LongestToShortest.Swap
Swap(s, i, j) == [s EXCEPT ![i] = s[j], ![j] = s[i]]

\* sort.Sort on a short slice: insertion sort driven by Less and Swap
RECURSIVE InsertStep(_, _)
InsertStep(s, j) ==
    IF j > 1 /\ Less(s, j, j - 1) THEN InsertStep(Swap(s, j, j - 1), j - 1) ELSE s

RECURSIVE InsertionSort(_, _)
InsertionSort(s, i) == IF i > Len(s) THEN s ELSE InsertionSort(InsertStep(s, i), i + 1)

SortSubcontexts(subs) == InsertionSort(subs, 2)

\* the orders a range over the map's keys can take
Orders(m) ==
    {o \in [1..Cardinality(DOMAIN m) -> DOMAIN m] : \A i, j \in DOMAIN o : i # j => o[i] # o[j]}

\* HTML5ModeHandler(contextRoot, subcontextMap, ...): the handler, or the error
NewHTML5ModeHandler(cfg, order) ==
    LET built == BuildLoop(cfg, order, NoData, <<>>)
    IN  IF built.err THEN [state |-> "error", subcontextData |-> NoData, subcontexts |-> <<>>]
        ELSE [state |-> "ready", subcontextData |-> built.data,
              subcontexts |-> SortSubcontexts(built.subs)]

----------------------------------------------------------------------------
(* One request: the response writer, the request, the compressor *)

ReqHeaderNames == {"Accept-Encoding", "If-None-Match"}

RespHeaderNames ==
    {"Vary", "Cache-Control", "ETag", "Content-Encoding", "Content-Type",
     "X-Content-Type-Options", "X-XSS-Protection", "X-Frame-Options",
     "X-DNS-Prefetch-Control", "Referrer-Policy", "Location"}

\* the state a handler works on while it serves one request:
\*   r         the *http.Request (its headers are mutated in place)
\*   w         the server's response writer: status, headers, body chunks
\*   writer    the http.ResponseWriter the current handler was handed
\*   gz        the gzip.Writer of the request, sniffDone the wrapper's flag
\*   gzWrites  per Write on the gzip wrapper, the bytes, and the Content-Type
\*             and the flag before and after the sniffing step
\*   fallback  the subcontexts whose index document was written
\*   delegated per delegation by GzipHandler, the writer and Accept-Encoding passed
\*   terminal  per call of the terminal handler, the response headers it found
\*   trace     the calls made so far, each with the response headers at the call
\*   panicked  whether a panic is unwinding the handlers
NewContext(req) ==
    [r         |-> req,
     w         |-> [code |-> 200, wroteHeader |-> FALSE,
                    header |-> [n \in RespHeaderNames |-> <<>>], body |-> <<>>],
     writer    |-> "base",
     gz        |-> [state |-> "none", wroteHeader |-> FALSE, buf |-> ""],
     sniffDone |-> FALSE,
     gzWrites  |-> <<>>,
     fallback  |-> <<>>,
     delegated |-> <<>>,
     terminal  |-> <<>>,
     trace     |-> <<>>,
     panicked  |-> FALSE]

\* one more call in the trace of the request
Traced(ctx, ev) == [ctx EXCEPT !.trace = Append(@, [ev |-> ev, header |-> ctx.w.header])]

\* ResponseWriter.WriteHeader on the server's writer: the first status sticks
BaseWriteHeader(ctx, code) ==
    IF ctx.w.wroteHeader THEN ctx
    ELSE [ctx EXCEPT !.w.code = code, !.w.wroteHeader = TRUE]

\* ResponseWriter.Write on the server's writer: an implicit 200, then the bytes
BaseWrite(ctx, enc, b) ==
    [BaseWriteHeader(ctx, 200) EXCEPT !.w.body = Append(@, [enc |-> enc, data |-> b])]

\* gzip.Writer.Write: the stream header goes out with the first write, the
\* data is held by the compressor
GzWrite(ctx, b) ==
    [(IF ctx.gz.wroteHeader THEN ctx
      ELSE BaseWrite([ctx EXCEPT !.gz.wroteHeader = TRUE], "gzip-header", ""))
        EXCEPT !.gz.buf = @ \o b]

\* gzip.Writer.Close: the header if no write sent it, the compressed data, the
\* trailer (checksum and size of the data); a second Close does nothing
GzFlush(ctx) ==
    [BaseWrite(BaseWrite(ctx, "deflate", ctx.gz.buf), "gzip-trailer", ctx.gz.buf)
        EXCEPT !.gz.state = "closed"]

GzClose(ctx) ==
    IF ctx.gz.state # "open" THEN Traced(ctx, "gz.Close")
    ELSE IF ctx.gz.wroteHeader THEN GzFlush(Traced(ctx, "gz.Close"))
    ELSE GzFlush(BaseWrite([Traced(ctx, "gz.Close") EXCEPT !.gz.wroteHeader = TRUE],
                           "gzip-header", ""))

\* http.DetectContentType, for markup and for other text
DetectContentType(b) ==
    IF \E sig \in {"<!DOCTYPE HTML", "<html", "<head", "<body", "<script"} : HasPrefix(b, sig)
    THEN "text/html; charset=utf-8"
    ELSE "text/plain; charset=utf-8"

\* a wrapper whose Write is the embedded ResponseWriter's: the bytes bypass the
\* compressor
GzipResponseWriterWrite_Bypass(ctx, b) == BaseWrite(ctx, "identity", b)

\* a sniffing step that sets the Content-Type whether or not one is set
Sniff_Overwrite(ctx, b) ==
    IF ctx.sniffDone THEN ctx
    ELSE [ctx EXCEPT !.w.header = HSet(@, "Content-Type", DetectContentType(b)),
                     !.sniffDone = TRUE]

\* the first statement of gzipResponseWriter.Write: the sniffing of the
\* Content-Type, guarded by the wrapper's flag
Sniff(ctx, b) ==
    IF ctx.sniffDone THEN ctx
    ELSE [ctx EXCEPT
            !.w.header = IF HGet(@, "Content-Type") = ""
                         THEN HSet(@, "Content-Type", DetectContentType(b))
                         ELSE @,
            !.sniffDone = TRUE]

\* the Write noted in the log of the request, with the state before and after
\* its sniffing step
Sniffed(before, after, b) ==
    [after EXCEPT !.gzWrites =
        Append(@, [data |-> b,
                   before |-> [contentType |-> before.w.header["Content-Type"],
                               sniffDone |-> before.sniffDone],
                   after  |-> [contentType |-> after.w.header["Content-Type"],
                               sniffDone |-> after.sniffDone]])]

\* gzipResponseWriter.Write
GzipResponseWriterWrite(ctx, b) == GzWrite(Sniffed(ctx, Sniff(ctx, b), b), b)

\* w.Write(b) on whichever writer the handler holds
Write(ctx, b) ==
    IF ctx.writer = "gzip" THEN GzipResponseWriterWrite(ctx, b) ELSE BaseWrite(ctx, "identity", b)

\* w.WriteHeader(code): the gzip wrapper passes it to the writer it embeds
WriteHeader(ctx, code) == BaseWriteHeader(ctx, code)

\* w.Header().Add and w.Header().Set
AddHeader(ctx, k, v) == [ctx EXCEPT !.w.header = HAdd(@, k, v)]

SetHeader(ctx, k, v) == [ctx EXCEPT !.w.header = HSet(@, k, v)]

----------------------------------------------------------------------------
(* The handlers *)

\* stubHandler(response): the terminal handler h
stubHandler(response, ctx) ==
    IF Len(response) > 0
    THEN Write([ctx EXCEPT !.terminal = Append(@, ctx.w.header)], response)
    ELSE [ctx EXCEPT !.terminal = Append(@, ctx.w.header)]

\* one w.Write per chunk, in order
RECURSIVE WriteAll(_, _)
WriteAll(ctx, chunks) ==
    IF chunks = <<>> THEN ctx ELSE WriteAll(Write(ctx, Head(chunks)), Tail(chunks))

\* the headers the inline handler sets before it writes
InlineHeaders(h, ctx) ==
    LET varied == IF h.varyFoo THEN AddHeader(ctx, "Vary", "Foo") ELSE ctx
    IN  IF h.contentType # "" THEN AddHeader(varied, "Content-Type", h.contentType)
        ELSE varied

\* the wrapped handler the gzip tests write inline: Vary: Foo added or not,
\* the chunks written, then a return or a panic
inlineHandler(h, ctx) ==
    [WriteAll(InlineHeaders(h, [ctx EXCEPT !.terminal = Append(@, ctx.w.header)]),
              h.writes)
        EXCEPT !.panicked = h.panics]

\* a loop that prepends each value: the values end up in reverse order
RECURSIVE VaryHeaderValues_Reversed(_, _)
VaryHeaderValues_Reversed(r, varyHeaders) ==
    IF varyHeaders = <<>> THEN ""
    ELSE VaryHeaderValues_Reversed(r, Tail(varyHeaders)) \o HGet(r.header, Head(varyHeaders))

\* generateEtag: the loop over varyHeaders
RECURSIVE VaryHeaderValues(_, _)
VaryHeaderValues(r, varyHeaders) ==
    IF varyHeaders = <<>> THEN ""
    ELSE HGet(r.header, Head(varyHeaders)) \o VaryHeaderValues(r, Tail(varyHeaders))

generateEtag(r, version, varyHeaders) ==
    "W/\"" \o version \o "_" \o HexEncode(VaryHeaderValues(r, varyHeaders)) \o "\""

\* a prefix test that forgets the slash after the subcontext
SubcontextMatches_NoSlash(urlPath, subcontext) ==
    urlPath = subcontext \/ HasPrefix(urlPath, subcontext)

\* a test that puts the slash after every subcontext, the root one included
SubcontextMatches_RootSlash(urlPath, subcontext) ==
    urlPath = subcontext \/ HasPrefix(urlPath, subcontext \o "/")

\* the test of the handler's loop: does urlPath fall under subcontext
SubcontextMatches(urlPath, subcontext) ==
    LET prefix == IF subcontext # "" THEN subcontext \o "/" ELSE subcontext
    IN  urlPath = subcontext \/ HasPrefix(urlPath, prefix)

\* the handler's loop over the sorted subcontexts: the first match, if any
RECURSIVE FirstMatch(_, _)
FirstMatch(subcontexts, urlPath) ==
    IF subcontexts = <<>> THEN <<>>
    ELSE IF SubcontextMatches(urlPath, Head(subcontexts)) THEN <<Head(subcontexts)>>
    ELSE FirstMatch(Tail(subcontexts), urlPath)

\* the Vary names the ETag is computed from
VaryHeaders(ctx) ==
    IF HGet(ctx.w.header, "Vary") # "" THEN VarySplit(HGet(ctx.w.header, "Vary")) ELSE <<>>

\* a fallback decided by the subcontext alone, whether or not the asset exists
FallsBack_IgnoringStore(hd, urlPath) == FirstMatch(hd.subcontexts, urlPath) # <<>>

\* does the handler serve an index document instead of the asset
FallsBack(hd, urlPath) == ~AssetFound(urlPath) /\ FirstMatch(hd.subcontexts, urlPath) # <<>>

\* a comparison with the opaque tag only, the weakness prefix dropped
NotModified_OpaqueTag(ifNoneMatch, etag) == ifNoneMatch = TrimPrefix(etag, "W/")

\* does the request revalidate successfully
NotModified(ifNoneMatch, etag) == ifNoneMatch = etag

\* a fallback branch that sends the caching header of the static assets
ServeIndex_Revalidate(hd, ctx, subcontext) ==
    Write([AddHeader(ctx, "Cache-Control", "public, max-age=0, must-revalidate")
              EXCEPT !.fallback = Append(@, subcontext)],
          hd.subcontextData[subcontext])

\* the handler's fallback branch: the index document of the first match
ServeIndex(hd, ctx, subcontext) ==
    Write([AddHeader(ctx, "Cache-Control", "no-cache, no-store")
              EXCEPT !.fallback = Append(@, subcontext)],
          hd.subcontextData[subcontext])

\* an ETag branch that delegates first and adds the caching headers afterwards
ServeAsset_HeadersAfter(cfg, ctx, etag) ==
    IF NotModified(HGet(ctx.r.header, "If-None-Match"), etag)
    THEN WriteHeader(ctx, 304)
    ELSE AddHeader(AddHeader(stubHandler(cfg.response, ctx),
                             "Cache-Control", "public, max-age=0, must-revalidate"),
                   "ETag", etag)

\* the handler's ETag branch: 304, or the caching headers and the terminal handler
ServeAsset(cfg, ctx, etag) ==
    IF NotModified(HGet(ctx.r.header, "If-None-Match"), etag)
    THEN WriteHeader(ctx, 304)
    ELSE stubHandler(cfg.response,
           AddHeader(AddHeader(ctx, "Cache-Control", "public, max-age=0, must-revalidate"),
                     "ETag", etag))

\* a handler that answers the conditional request before it looks for the asset
HTML5ModeServe_EtagFirst(cfg, hd, ctx) ==
    IF NotModified(HGet(ctx.r.header, "If-None-Match"),
                   generateEtag(ctx.r, cfg.version, VaryHeaders(ctx)))
    THEN WriteHeader(ctx, 304)
    ELSE IF FallsBack(hd, TrimPrefix(ctx.r.path, "/"))
    THEN ServeIndex(hd, ctx, FirstMatch(hd.subcontexts, TrimPrefix(ctx.r.path, "/"))[1])
    ELSE ServeAsset(cfg, ctx, generateEtag(ctx.r, cfg.version, VaryHeaders(ctx)))

\* a handler whose fallback branch does not return: the ETag branch runs too
HTML5ModeServe_FallThrough(cfg, hd, ctx) ==
    IF FallsBack(hd, TrimPrefix(ctx.r.path, "/"))
    THEN ServeAsset(cfg,
                    ServeIndex(hd, ctx, FirstMatch(hd.subcontexts, TrimPrefix(ctx.r.path, "/"))[1]),
                    generateEtag(ctx.r, cfg.version, VaryHeaders(ctx)))
    ELSE ServeAsset(cfg, ctx, generateEtag(ctx.r, cfg.version, VaryHeaders(ctx)))

\* the handler HTML5ModeHandler returns, around the terminal handler
HTML5ModeServe(cfg, hd, ctx) ==
    IF FallsBack(hd, TrimPrefix(ctx.r.path, "/"))
    THEN ServeIndex(hd, ctx, FirstMatch(hd.subcontexts, TrimPrefix(ctx.r.path, "/"))[1])
    ELSE ServeAsset(cfg, ctx, generateEtag(ctx.r, cfg.version, VaryHeaders(ctx)))

\* a handler that sets no Referrer-Policy
SecurityHeaders_NoReferrerPolicy(ctx) ==
    Traced(
      SetHeader(SetHeader(SetHeader(SetHeader(ctx,
        "X-Content-Type-Options", "nosniff"),
        "X-XSS-Protection", "1; mode=block"),
        "X-Frame-Options", "DENY"),
        "X-DNS-Prefetch-Control", "off"),
      "security.h.ServeHTTP")

\* SecurityHeadersHandler: the headers it sets before it delegates
SecurityHeaders(ctx) ==
    Traced(
      SetHeader(SetHeader(SetHeader(SetHeader(SetHeader(ctx,
        "X-Content-Type-Options", "nosniff"),
        "X-XSS-Protection", "1; mode=block"),
        "X-Frame-Options", "DENY"),
        "X-DNS-Prefetch-Control", "off"),
        "Referrer-Policy", "strict-origin-when-cross-origin"),
      "security.h.ServeHTTP")

\* a test for the presence of the header, whatever it lists
AcceptsGzip_AnyEncoding(r) == HGet(r.header, "Accept-Encoding") # ""

\* GzipHandler's test of the request
AcceptsGzip(r) == Contains(HGet(r.header, "Accept-Encoding"), "gzip")

\* a handler that leaves the Vary header alone
GzipVary_Omitted(ctx) == ctx

\* a handler that announces the negotiation only when it compresses
GzipVary_WhenCompressing(ctx) ==
    IF Contains(HGet(ctx.r.header, "Accept-Encoding"), "gzip")
    THEN AddHeader(ctx, "Vary", "Accept-Encoding") ELSE ctx

\* GzipHandler's first statement
GzipVary(ctx) == AddHeader(ctx, "Vary", "Accept-Encoding")

\* a gzip branch that passes the client's Accept-Encoding on as it came
GzipWrap_NotNormalized(ctx) ==
    Traced([SetHeader(ctx, "Content-Encoding", "gzip")
               EXCEPT !.gz.state = "open", !.writer = "gzip"],
           "gzip.NewWriter")

\* GzipHandler, gzip branch, up to the delegation: the request normalized, the
\* response marked, the compressor opened and the writer wrapped
GzipWrap(ctx) ==
    Traced([SetHeader([ctx EXCEPT !.r.header = HSet(@, "Accept-Encoding", "gzip")],
                      "Content-Encoding", "gzip")
               EXCEPT !.gz.state = "open", !.writer = "gzip"],
           "gzip.NewWriter")

\* what GzipHandler passes to h.ServeHTTP
Delegate(ctx) ==
    [Traced(ctx, "h.ServeHTTP") EXCEPT !.delegated =
        Append(@, [writer |-> ctx.writer, header |-> ctx.r.header])]

\* a Close that is called after h.ServeHTTP instead of being deferred: a panic
\* of the wrapped handler skips it
GzipDone_NotDeferred(inner) ==
    IF inner.panicked THEN Traced(inner, "h.panic")
    ELSE GzClose(Traced(inner, "h.return"))

\* the end of GzipHandler's gzip branch: the wrapped handler has returned or
\* panicked, and the deferred gz.Close() runs
GzipDone(inner) ==
    GzClose(Traced(inner, IF inner.panicked THEN "h.panic" ELSE "h.return"))

----------------------------------------------------------------------------
(* GeneratedConfigHandler: the configuration document *)

\* the string fields of WebConsoleConfig
StringFields ==
    {"APIGroupAddr", "APIGroupPrefix", "MasterAddr", "MasterPrefix",
     "KubernetesAddr", "KubernetesPrefix", "OAuthAuthorizeURI", "OAuthTokenURI",
     "OAuthRedirectBase", "OAuthClientID", "LogoutURI", "LoggingURL",
     "MetricsURL", "AdminConsoleURL"}

\* the replacement template.JSEscape writes for one character (printable
\* ASCII; the values of this model hold no other)
JSEscapeChar(c) ==
    CASE c = "\\" -> "\\\\"
      [] c = "'"  -> "\\'"
      [] c = "\"" -> "\\\""
      [] c = "<"  -> "\\x3C"
      [] c = ">"  -> "\\x3E"
      [] OTHER    -> c

\* the template function js: template.JSEscapeString
RECURSIVE JSEscapeString(_)
JSEscapeString(str) ==
    IF str = "" THEN ""
    ELSE JSEscapeChar(CharAt(str, 1)) \o JSEscapeString(SubSeq(str, 2, Len(str)))

\* how the template prints an int64 (here: not negative)
RECURSIVE FormatInt(_)
FormatInt(n) ==
    IF n < 10 THEN CharAt("0123456789", n + 1)
    ELSE FormatInt(n \div 10) \o CharAt("0123456789", (n % 10) + 1)

\* how the template prints a bool
FormatBool(b) == IF b THEN "true" ELSE "false"

\* a template that emits the sub-object whether or not the pointer is nil
WithLimitRequestOverrides_Always(overrides) ==
    "\n  limitRequestOverrides: {\n\tlimitCPUToMemoryPercent: "
        \o (IF overrides = <<>> THEN "0" ELSE FormatInt(overrides[1].LimitCPUToMemoryPercent))
        \o ",\n\tcpuRequestToLimitPercent: "
        \o (IF overrides = <<>> THEN "0" ELSE FormatInt(overrides[1].CPURequestToLimitPercent))
        \o ",\n\tmemoryRequestToLimitPercent: "
        \o (IF overrides = <<>> THEN "0" ELSE FormatInt(overrides[1].MemoryRequestToLimitPercent))
        \o "\n  },\n  "

\* configTemplate, {{ with .LimitRequestOverrides }} ... {{ end }}: the pointer
\* is <<>> when nil, <<struct>> otherwise
WithLimitRequestOverrides(overrides) ==
    IF overrides = <<>> THEN ""
    ELSE "\n  limitRequestOverrides: {\n\tlimitCPUToMemoryPercent: "
             \o FormatInt(overrides[1].LimitCPUToMemoryPercent)
             \o ",\n\tcpuRequestToLimitPercent: "
             \o FormatInt(overrides[1].CPURequestToLimitPercent)
             \o ",\n\tmemoryRequestToLimitPercent: "
             \o FormatInt(overrides[1].MemoryRequestToLimitPercent)
             \o "\n  },\n  "

\* configTemplate.Execute(&buffer, config)
ExecuteConfigTemplate(c) ==
    "\nwindow.OPENSHIFT_CONFIG = {\n  apis: {\n    hostPort: \""
        \o JSEscapeString(c.APIGroupAddr)
        \o "\",\n    prefix: \""
        \o JSEscapeString(c.APIGroupPrefix)
        \o "\"\n  },\n  api: {\n    openshift: {\n      hostPort: \""
        \o JSEscapeString(c.MasterAddr)
        \o "\",\n      prefix: \""
        \o JSEscapeString(c.MasterPrefix)
        \o "\"\n    },\n    k8s: {\n      hostPort: \""
        \o JSEscapeString(c.KubernetesAddr)
        \o "\",\n      prefix: \""
        \o JSEscapeString(c.KubernetesPrefix)
        \o "\"\n    }\n  },\n  auth: {\n  \toauth_authorize_uri: \""
        \o JSEscapeString(c.OAuthAuthorizeURI)
        \o "\",\n\toauth_token_uri: \""
        \o JSEscapeString(c.OAuthTokenURI)
        \o "\",\n  \toauth_redirect_base: \""
        \o JSEscapeString(c.OAuthRedirectBase)
        \o "\",\n  \toauth_client_id: \""
        \o JSEscapeString(c.OAuthClientID)
        \o "\",\n  \tlogout_uri: \""
        \o JSEscapeString(c.LogoutURI)
        \o "\"\n  },\n  "
        \o WithLimitRequestOverrides(c.LimitRequestOverrides)
        \o "\n  adminConsoleURL: \""
        \o c.AdminConsoleURL
        \o "\",\n  loggingURL: \""
        \o JSEscapeString(c.LoggingURL)
        \o "\",\n  metricsURL: \""
        \o JSEscapeString(c.MetricsURL)
        \o "\",\n  templateServiceBrokerEnabled: "
        \o FormatBool(c.TemplateServiceBrokerEnabled)
        \o ",\n  inactivityTimeoutMinutes: "
        \o FormatInt(c.InactivityTimeoutMinutes)
        \o ",\n  clusterResourceOverridesEnabled: "
        \o FormatBool(c.ClusterResourceOverridesEnabled)
        \o "\n};\n"

\* versionTemplate.Execute(&buffer, version)
ExecuteVersionTemplate(version) ==
    "\nwindow.OPENSHIFT_VERSION = {\n  console: \""
        \o JSEscapeString(version.ConsoleVersion)
        \o "\"\n};\n"

\* extensionPropertiesTemplate, {{ range $i, $property := ... }} ... {{ end }}
RECURSIVE RangeExtensionProperties(_, _)
RangeExtensionProperties(properties, i) ==
    IF i > Len(properties) THEN ""
    ELSE (IF i > 1 THEN "," ELSE "")
             \o "\n  \"" \o JSEscapeString(properties[i].Key)
             \o "\": \"" \o JSEscapeString(properties[i].Value) \o "\""
             \o RangeExtensionProperties(properties, i + 1)

\* extensionPropertiesTemplate.Execute(&buffer, extensionProps)
ExecuteExtensionPropertiesTemplate(extensionProps) ==
    "\nwindow.OPENSHIFT_EXTENSION_PROPERTIES = {\n"
        \o RangeExtensionProperties(extensionProps.ExtensionProperties, 1)
        \o "\n};\n"

\* what GeneratedConfigHandler is called with
ConfigArgs(c, version, extensionProps) ==
    [config |-> c, version |-> version, extensionProps |-> extensionProps]

\* GeneratedConfigHandler(config, version, extensionProps): the three
\* templates executed into one buffer, whose bytes the handler keeps
GeneratedConfigHandler(args) ==
    [state   |-> "ready",
     args    |-> args,
     content |-> ExecuteConfigTemplate(args.config)
                     \o ExecuteVersionTemplate(args.version)
                     \o ExecuteExtensionPropertiesTemplate(args.extensionProps)]

\* a handler that answers only GET with the document
GeneratedConfigServe_GetOnly(content, ctx) ==
    IF ctx.r.method = "GET"
    THEN Write(AddHeader(AddHeader([ctx EXCEPT !.terminal = Append(@, ctx.w.header)],
                                   "Cache-Control", "no-cache, no-store"),
                         "Content-Type", "application/javascript"),
               content)
    ELSE [ctx EXCEPT !.terminal = Append(@, ctx.w.header)]

\* the handler GeneratedConfigHandler returns
GeneratedConfigServe(content, ctx) ==
    Write(AddHeader(AddHeader([ctx EXCEPT !.terminal = Append(@, ctx.w.header)],
                              "Cache-Control", "no-cache, no-store"),
                    "Content-Type", "application/javascript"),
          content)

\* WebConsoleConfig{}, as the template test passes it
ZeroConfig ==
    [APIGroupAddr |-> "", APIGroupPrefix |-> "", MasterAddr |-> "", MasterPrefix |-> "",
     KubernetesAddr |-> "", KubernetesPrefix |-> "", OAuthAuthorizeURI |-> "",
     OAuthTokenURI |-> "", OAuthRedirectBase |-> "", OAuthClientID |-> "",
     LogoutURI |-> "", LoggingURL |-> "", MetricsURL |-> "",
     LimitRequestOverrides |-> <<>>,
     TemplateServiceBrokerEnabled |-> FALSE,
     InactivityTimeoutMinutes |-> 0,
     ClusterResourceOverridesEnabled |-> FALSE,
     AdminConsoleURL |-> ""]

\* the arguments of the template test
ZeroArgs == ConfigArgs(ZeroConfig, [ConsoleVersion |-> ""], [ExtensionProperties |-> <<>>])

NoConfigHandler == [state |-> "none", args |-> ZeroArgs, content |-> ""]

NoServer == [state |-> "none", routes |-> {}]

\* a wrapper that declares the response to vary on the request's Foo header,
\* with a Vary line of its own, before it calls the handler it wraps
VaryFoo(ctx) == AddHeader(ctx, "Vary", "Foo")

\* the chain of handlers `chain` (outermost first) serving the request in ctx
RECURSIVE ServeChain(_, _, _, _)

\* GzipHandler after its first statement
GzipServe(chain, cfg, hd, ctx) ==
    IF ~AcceptsGzip(ctx.r)
    THEN ServeChain(Tail(chain), cfg, hd, Delegate(ctx))
    ELSE [GzipDone(ServeChain(Tail(chain), cfg, hd, Delegate(GzipWrap(ctx))))
             EXCEPT !.writer = ctx.writer]

ServeChain(chain, cfg, hd, ctx) ==
    IF chain = <<>> THEN stubHandler(cfg.response, ctx)
    ELSE CASE Head(chain) = "gzip"     -> GzipServe(chain, cfg, hd, GzipVary(ctx))
           [] Head(chain) = "security" -> ServeChain(Tail(chain), cfg, hd, SecurityHeaders(ctx))
           [] Head(chain) = "vary"     -> ServeChain(Tail(chain), cfg, hd, VaryFoo(ctx))
           [] Head(chain) = "html5"    -> HTML5ModeServe(cfg, hd, ctx)
           [] Head(chain) = "inline"   -> inlineHandler(cfg.inline, ctx)
           [] Head(chain) = "config"   -> GeneratedConfigServe(hd.content, ctx)

NoExchange == [state |-> "none"]

\* the request as sent and everything the chain did with it
Record(req, out) ==
    [state |-> "done", req |-> req, r |-> out.r, w |-> out.w, gz |-> out.gz,
     sniffDone |-> out.sniffDone, gzWrites |-> out.gzWrites, fallback |-> out.fallback,
     delegated |-> out.delegated, terminal |-> out.terminal,
     trace |-> out.trace, panicked |-> out.panicked]

Exchange(cfg, hd, req) == Record(req, ServeChain(cfg.chain, cfg, hd, NewContext(req)))

----------------------------------------------------------------------------
(* The requests clients send *)

Paths ==
    {"/", "/scripts/vendor.js", "/java/app.js", "/projects/my-project",
     "/java", "/java/foo/bar", "/javascript-thing"}

\* values of Accept-Encoding; <<>> is a request without the header
AcceptEncodings ==
    {<<>>, <<"deflate, br">>, <<"gzip">>, <<"deflate, gzip;q=0.8">>, <<"x-gzip">>}

\* values of If-None-Match: none, a stale one, the ETags of version 1234
IfNoneMatches == {<<>>, <<"123">>, <<"W/\"1234_\"">>, <<"W/\"1234_677a6970\"">>}

Requests ==
    { [path |-> p,
       header |-> [n \in ReqHeaderNames |-> IF n = "Accept-Encoding" THEN ae ELSE inm]] :
      p \in Paths, ae \in AcceptEncodings, inm \in IfNoneMatches }

\* the requests sent to the chain of cfg: the gzip tests send their inline
\* handler a request with an Accept-Encoding header at most
RequestsFor(cfg) ==
    IF cfg.chain = InlineChain
    THEN {req \in Requests : req.path = "/" /\ req.header["If-None-Match"] = <<>>}
    ELSE Requests

----------------------------------------------------------------------------
(* The server: assembly, then requests *)

Init ==
    /\ config \in Configs
    /\ handler = IF UsesHTML5(config) THEN NoHandler
                 ELSE [state |-> "ready", subcontextData |-> NoData, subcontexts |-> <<>>]
    /\ last = NoExchange
    /\ prev = NoExchange
    /\ etagCall = [state |-> "none"]
    /\ server = NoServer
    /\ configHandler = NoConfigHandler
    /\ cmd = [pc |-> "none"]
    /\ completeCall = [state |-> "none"]
    /\ procs = <<>>
    /\ wrappers = <<>>

\* buildAssetHandler / makeHTML5ModeHandler: the call of HTML5ModeHandler, the
\* range over the map taking any order
Construct ==
    /\ handler.state = "none"
    /\ \E order \in Orders(config.subcontextMap) :
          handler' = NewHTML5ModeHandler(config, order)
    /\ UNCHANGED <<config, last, prev, etagCall, server, configHandler,
                   cmd, completeCall, procs, wrappers>>

\* handler.ServeHTTP(writer, request) on a fresh response writer: the first
\* request of the run (the handlers keep nothing from one request to the next)
ServeHTTP ==
    /\ handler.state = "ready"
    /\ last.state = "none"
    /\ \E req \in RequestsFor(config) : last' = Exchange(config, handler, req)
    /\ prev' = NoExchange
    /\ UNCHANGED <<config, handler, etagCall, server, configHandler, cmd,
                   completeCall, procs, wrappers>>

\* the request just served is sent again with another Accept-Encoding
ServeAgain ==
    /\ handler.state = "ready"
    /\ last.state = "done"
    /\ \E ae \in AcceptEncodings :
          last' = Exchange(config, handler,
                           [last.req EXCEPT !.header["Accept-Encoding"] = ae])
    /\ prev' = last
    /\ UNCHANGED <<config, handler, etagCall, server, configHandler, cmd,
                   completeCall, procs, wrappers>>

Next == Construct \/ ServeHTTP \/ ServeAgain

Spec == Init /\ [][Next]_vars

----------------------------------------------------------------------------
(* completedConfig.New: the server and the routes of its mux *)

\* url.Parse for the URLs of this model: scheme://host[/path] parses, a
\* string with a colon and no scheme does not
UrlParse(rawurl) ==
    IF Index(rawurl, "://") = 0
    THEN [err |-> Contains(rawurl, ":"), Scheme |-> "", Host |-> "",
          Path |-> rawurl, String |-> rawurl]
    ELSE [err |-> FALSE,
          Scheme |-> SubSeq(rawurl, 1, Index(rawurl, "://") - 1),
          Host |-> LET rest == SubSeq(rawurl, Index(rawurl, "://") + 3, Len(rawurl))
                   IN  IF Index(rest, "/") = 0 THEN rest
                       ELSE SubSeq(rest, 1, Index(rest, "/") - 1),
          Path |-> LET rest == SubSeq(rawurl, Index(rawurl, "://") + 3, Len(rawurl))
                   IN  IF Index(rest, "/") = 0 THEN ""
                       ELSE SubSeq(rest, Index(rest, "/"), Len(rest)),
          String |-> rawurl]

\* strings.TrimRight(s, "/")
RECURSIVE TrimRightSlash(_)
TrimRightSlash(str) ==
    IF HasSuffix(str, "/") THEN TrimRightSlash(SubSeq(str, 1, Len(str) - 1)) ELSE str

\* openShiftOAuthURL: path.Join of /oauth and the rooted endpoint
openShiftOAuthURL(masterAddr, oauthEndpoint) ==
    TrimRightSlash(masterAddr) \o "/oauth" \o oauthEndpoint

\* the WebConsoleConfig addWebConsoleConfig fills in
WebConsoleConfigOf(masterURL, options) ==
    [ZeroConfig EXCEPT
        !.APIGroupAddr = masterURL.Host,
        !.APIGroupPrefix = "/apis",
        !.MasterAddr = masterURL.Host,
        !.MasterPrefix = "/oapi",
        !.KubernetesAddr = masterURL.Host,
        !.KubernetesPrefix = "/api",
        !.OAuthAuthorizeURI = openShiftOAuthURL(masterURL.String, "/authorize"),
        !.OAuthTokenURI = openShiftOAuthURL(masterURL.String, "/token"),
        !.OAuthRedirectBase = options.ConsolePublicURL,
        !.OAuthClientID = "openshift-web-console",
        !.LogoutURI = options.LogoutPublicURL,
        !.LoggingURL = options.LoggingPublicURL,
        !.MetricsURL = options.MetricsPublicURL,
        !.InactivityTimeoutMinutes = options.InactivityTimeoutMinutes,
        !.ClusterResourceOverridesEnabled = options.ClusterResourceOverridesEnabled,
        !.TemplateServiceBrokerEnabled =
            IF options.TemplateServiceBrokerEnabled # <<>>
            THEN options.TemplateServiceBrokerEnabled[1] ELSE FALSE]

\* the options the server is started with
ServerOptions ==
    { [MasterPublicURL |-> m,
       ConsolePublicURL |-> "https://c/",
       LogoutPublicURL |-> lo,
       LoggingPublicURL |-> "",
       MetricsPublicURL |-> "https://h/m",
       InactivityTimeoutMinutes |-> 15,
       ClusterResourceOverridesEnabled |-> FALSE,
       TemplateServiceBrokerEnabled |-> tsb,
       ExtensionProperties |-> <<[Key |-> "k", Value |-> "v's"]>>,
       ConsoleVersion |-> "v3.9"] :
      m \in {"https://m:8443", ":"}, lo \in {"", "https://c/\"out\""},
      tsb \in {<<>>, <<TRUE>>} }

\* the chain addWebConsoleConfig registers for config.js
ConfigChain == <<"gzip", "security", "config">>

\* addAssets: the routes registered for the asset handler
AssetRoutes(cfg) ==
    { [kind |-> "prefix", path |-> cfg.contextRoot],
      [kind |-> "exact", path |-> SubSeq(cfg.contextRoot, 1, Len(cfg.contextRoot) - 1)] }

\* the path addWebConsoleConfig registers the document under
ConfigPath(cfg) == PathJoin(cfg.contextRoot, "config.js")

\* addWebConsoleConfig on a mux that holds `routes`
addWebConsoleConfig(cfg, options, hd, routes) ==
    IF UrlParse(options.MasterPublicURL).err
    THEN [handler |-> hd, server |-> [state |-> "error", routes |-> routes],
          configHandler |-> NoConfigHandler]
    ELSE [handler |-> hd,
          server |-> [state |-> "serving",
                      routes |-> routes \cup {[kind |-> "exact", path |-> ConfigPath(cfg)]}],
          configHandler |->
              GeneratedConfigHandler(
                  ConfigArgs(WebConsoleConfigOf(UrlParse(options.MasterPublicURL), options),
                             [ConsoleVersion |-> options.ConsoleVersion],
                             [ExtensionProperties |-> options.ExtensionProperties]))]

\* a server that registers what it can and starts although the asset handler
\* could not be built
NewServer_IgnoringError(cfg, hd, options) ==
    addWebConsoleConfig(cfg, options, hd, AssetRoutes(cfg))

\* completedConfig.New after buildAssetHandler has returned hd: addAssets, then
\* addWebConsoleConfig, the first error ending the construction
NewServer(cfg, hd, options) ==
    IF hd.state = "error"
    THEN [handler |-> hd, server |-> [state |-> "error", routes |-> {}],
          configHandler |-> NoConfigHandler]
    ELSE addWebConsoleConfig(cfg, options, hd, AssetRoutes(cfg))

\* http.StripPrefix(prefix, h): the request h gets
StripPrefix(prefix, req) == [req EXCEPT !.path = TrimPrefix(@, prefix)]

\* the mux as the handler chain calls it, on the writer and the request the
\* chain hands it
MuxDispatch(srv, cfg, hd, ch, ctx) ==
    IF [kind |-> "exact", path |-> ctx.r.path] \in srv.routes /\ ctx.r.path = ConfigPath(cfg)
    THEN ServeChain(ConfigChain, cfg, ch, ctx)
    ELSE IF [kind |-> "exact", path |-> ctx.r.path] \in srv.routes
    THEN BaseWriteHeader(ctx, 301)
    ELSE IF \E rt \in srv.routes : rt.kind = "prefix" /\ HasPrefix(ctx.r.path, rt.path)
    THEN ServeChain(cfg.chain, cfg, hd, [ctx EXCEPT !.r = StripPrefix(cfg.contextRoot, @)])
    ELSE BaseWriteHeader(ctx, 404)

\* http.Redirect for a GET request: Location, a Content-Type if none is set,
\* the status, and a short note with the link
HttpRedirect(ctx, url, code) ==
    Write(WriteHeader(
              [SetHeader(ctx, "Location", url) EXCEPT
                  !.w.header = IF HGet(@, "Content-Type") = ""
                               THEN HSet(@, "Content-Type", "text/html; charset=utf-8")
                               ELSE @],
              code),
          "<a href=\"" \o url \o "\">Found</a>.\n\n")

\* the handler WithAssetServerRedirect returns, around the mux; the asset
\* public URL it is given is the path of the console's public URL
WithAssetServerRedirect(srv, cfg, hd, ch, ctx) ==
    MuxDispatch(srv, cfg, hd, ch,
                Traced(IF ctx.r.path = "/" THEN HttpRedirect(ctx, cfg.contextRoot, 302)
                       ELSE ctx,
                       "redirect.handler.ServeHTTP"))

\* buildHandlerChainForAssets: the chain in front of the mux, serving one
\* request on a fresh response writer
HandlerChainServe(srv, cfg, hd, ch, req) ==
    Record(req, WithAssetServerRedirect(srv, cfg, hd, ch, NewContext(req)))

\* the requests sent to the server
ServerRequests ==
    Requests \cup
    { [path |-> "/config.js",
       header |-> [n \in ReqHeaderNames |-> IF n = "Accept-Encoding" THEN ae ELSE inm]] :
      ae \in AcceptEncodings, inm \in {<<>>, <<"123">>} }

InitServer ==
    /\ config \in {c \in Configs : c.chain = <<"gzip", "security", "html5">>}
    /\ handler = NoHandler
    /\ last = NoExchange
    /\ prev = NoExchange
    /\ etagCall = [state |-> "none"]
    /\ server = NoServer
    /\ configHandler = NoConfigHandler
    /\ cmd = [pc |-> "none"]
    /\ completeCall = [state |-> "none"]
    /\ procs = <<>>
    /\ wrappers = <<>>

\* completedConfig.New: buildAssetHandler (the range over the subcontext map
\* taking any order), addAssets, addWebConsoleConfig
New ==
    /\ server.state = "none"
    /\ \E order \in Orders(config.subcontextMap), options \in ServerOptions :
          LET built == NewServer(config, NewHTML5ModeHandler(config, order), options)
          IN  /\ handler' = built.handler
              /\ server' = built.server
              /\ configHandler' = built.configHandler
    /\ UNCHANGED <<config, last, prev, etagCall, cmd, completeCall, procs, wrappers>>

\* the running server answers a request
ServeMux ==
    /\ server.state = "serving"
    /\ last.state = "none"
    /\ \E req \in ServerRequests :
          last' = HandlerChainServe(server, config, handler, configHandler, req)
    /\ UNCHANGED <<config, handler, prev, etagCall, server, configHandler,
                   cmd, completeCall, procs, wrappers>>

NextServer == New \/ ServeMux

SpecServer == InitServer /\ [][NextServer]_vars

----------------------------------------------------------------------------
(* GeneratedConfigHandler called directly, as in TestWebConsoleConfigTemplate *)

MaxProps == 2

\* values an operator can configure that would end a JavaScript string
\* literal or a script element
HostileStrings == {"\";alert('x');//", "</script>"}

\* a configuration with every string field set
BaseConfig ==
    [APIGroupAddr |-> "m:8443", APIGroupPrefix |-> "/apis",
     MasterAddr |-> "m:8443", MasterPrefix |-> "/oapi",
     KubernetesAddr |-> "m:8443", KubernetesPrefix |-> "/api",
     OAuthAuthorizeURI |-> "https://m:8443/oauth/authorize",
     OAuthTokenURI |-> "https://m:8443/oauth/token",
     OAuthRedirectBase |-> "https://c/", OAuthClientID |-> "openshift-web-console",
     LogoutURI |-> "https://c/out", LoggingURL |-> "https://h/l",
     MetricsURL |-> "https://h/m",
     LimitRequestOverrides |-> <<>>,
     TemplateServiceBrokerEnabled |-> TRUE,
     InactivityTimeoutMinutes |-> 15,
     ClusterResourceOverridesEnabled |-> TRUE,
     AdminConsoleURL |-> "https://a/"]

\* LimitRequestOverrides: nil, a pointer to the zero struct, a pointer to ratios
Overrides ==
    { <<>>,
      <<[LimitCPUToMemoryPercent |-> 0, CPURequestToLimitPercent |-> 0,
         MemoryRequestToLimitPercent |-> 0]>>,
      <<[LimitCPUToMemoryPercent |-> 200, CPURequestToLimitPercent |-> 25,
         MemoryRequestToLimitPercent |-> 50]>> }

Properties ==
    { [Key |-> "k", Value |-> "v"],
      [Key |-> "\";alert('x');//", Value |-> "v"],
      [Key |-> "k2", Value |-> "</script>"] }

PropertyLists == UNION { [1..n -> Properties] : n \in 0..MaxProps }

\* the arguments GeneratedConfigHandler is called with: those of the test, a
\* full configuration with one hostile field, versions and extension properties
GeneratorInputs ==
    {ZeroArgs}
    \cup { ConfigArgs([BaseConfig EXCEPT ![f] = v, !.LimitRequestOverrides = o],
                      [ConsoleVersion |-> "v3.9"], [ExtensionProperties |-> <<>>]) :
           f \in StringFields, v \in HostileStrings, o \in Overrides }
    \cup { ConfigArgs(BaseConfig, [ConsoleVersion |-> v], [ExtensionProperties |-> ps]) :
           v \in {"v3.9"} \cup HostileStrings, ps \in PropertyLists }

\* the requests sent to the returned handler
ConfigRequests ==
    { [method |-> m, path |-> p,
       header |-> [n \in ReqHeaderNames |-> IF n = "Accept-Encoding" THEN ae ELSE <<>>]] :
      m \in {"GET", "POST"}, p \in {"/config.js", "/x"}, ae \in {<<>>, <<"gzip">>} }

InitConfig ==
    /\ config \in {c \in Configs : c.chain = <<"html5">> /\ c.contextRoot = "/console/"
                                    /\ DOMAIN c.subcontextMap = {""}}
    /\ handler = NoHandler
    /\ last = NoExchange
    /\ prev = NoExchange
    /\ etagCall = [state |-> "none"]
    /\ server = NoServer
    /\ configHandler \in {[NoConfigHandler EXCEPT !.args = a] : a \in GeneratorInputs}
    /\ cmd = [pc |-> "none"]
    /\ completeCall = [state |-> "none"]
    /\ procs = <<>>
    /\ wrappers = <<>>

\* GeneratedConfigHandler(config, version, extensionProps)
CallGeneratedConfigHandler ==
    /\ configHandler.state = "none"
    /\ configHandler' = GeneratedConfigHandler(configHandler.args)
    /\ UNCHANGED <<config, handler, last, prev, etagCall, server,
                   cmd, completeCall, procs, wrappers>>

\* handler.ServeHTTP(writer, request) on the returned handler, for a first and
\* for a second request
ServeConfig ==
    /\ configHandler.state = "ready"
    /\ prev.state = "none"
    /\ \E req \in ConfigRequests :
          last' = Record(req, ServeChain(<<"config">>, config, configHandler, NewContext(req)))
    /\ prev' = last
    /\ UNCHANGED <<config, handler, etagCall, server, configHandler, cmd,
                   completeCall, procs, wrappers>>

NextConfig == CallGeneratedConfigHandler \/ ServeConfig

SpecConfig == InitConfig /\ [][NextConfig]_vars

----------------------------------------------------------------------------
(* generateEtag called directly, as in TestGenerateEtag *)

MaxVary == 2

EtagHeaderNames == {"Foo", "Bar", "Baz"}

\* request headers: Baz is never sent, Bar may carry two values
EtagRequests ==
    { [path |-> "/", header |-> [n \in {"Foo", "Bar"} |-> IF n = "Foo" THEN foo ELSE bar]] :
      foo \in {<<>>, <<"123">>, <<"a b">>}, bar \in {<<>>, <<"456">>, <<"7", "89">>} }

VaryLists == UNION { [1..n -> EtagHeaderNames] : n \in 0..MaxVary }

InitEtag ==
    /\ config \in {c \in Configs : c.chain = <<"html5">> /\ c.contextRoot = "/console/"
                                    /\ DOMAIN c.subcontextMap = {""}}
    /\ handler = NoHandler
    /\ last = NoExchange
    /\ prev = NoExchange
    /\ etagCall = [state |-> "none"]
    /\ server = NoServer
    /\ configHandler = NoConfigHandler
    /\ cmd = [pc |-> "none"]
    /\ completeCall = [state |-> "none"]
    /\ procs = <<>>
    /\ wrappers = <<>>

CallGenerateEtag ==
    /\ \E r \in EtagRequests, version \in {"1234", ""}, varyHeaders \in VaryLists :
          etagCall' = [state |-> "done", r |-> r, version |-> version,
                       varyHeaders |-> varyHeaders,
                       etag |-> generateEtag(r, version, varyHeaders)]
    /\ UNCHANGED <<config, handler, last, prev, server, configHandler,
                   cmd, completeCall, procs, wrappers>>

NextEtag == CallGenerateEtag

SpecEtag == InitEtag /\ [][NextEtag]_vars

----------------------------------------------------------------------------
(* HTML5ModeHandler under wrappers that each add a Vary line *)

\* GzipHandler and the Foo wrapper above the HTML5 handler, in either order
VaryChains ==
    { <<"gzip", "vary", "html5">>, <<"vary", "gzip", "html5">>, <<"vary", "html5">> }

VaryConfigs ==
    { [chain |-> c, subcontextMap |-> [k \in {""} |-> "index.html"],
       contextRoot |-> "/console/",
       extensionScripts |-> <<>>, extensionStylesheets |-> <<>>,
       version |-> "1234",
       response |-> "hello",
       inline |-> [varyFoo |-> FALSE, contentType |-> "", writes |-> <<>>, panics |-> FALSE]] :
      c \in VaryChains }

FooValues == {<<>>, <<"1">>, <<"2">>}

VaryRequests ==
    { [path |-> p,
       header |-> [n \in ReqHeaderNames \cup {"Foo"} |->
                      CASE n = "Accept-Encoding" -> ae
                        [] n = "If-None-Match"   -> inm
                        [] OTHER                 -> foo]] :
      p \in {"/scripts/vendor.js", "/projects/my-project"},
      ae \in {<<>>, <<"gzip">>},
      inm \in {<<>>, <<"W/\"1234_\"">>},
      foo \in FooValues }

InitVary ==
    /\ config \in VaryConfigs
    /\ handler = NoHandler
    /\ last = NoExchange
    /\ prev = NoExchange
    /\ etagCall = [state |-> "none"]
    /\ server = NoServer
    /\ configHandler = NoConfigHandler
    /\ cmd = [pc |-> "none"]
    /\ completeCall = [state |-> "none"]
    /\ procs = <<>>
    /\ wrappers = <<>>

\* the first request of the run
ServeVaried ==
    /\ handler.state = "ready"
    /\ last.state = "none"
    /\ \E req \in VaryRequests : last' = Exchange(config, handler, req)
    /\ prev' = NoExchange
    /\ UNCHANGED <<config, handler, etagCall, server, configHandler, cmd,
                   completeCall, procs, wrappers>>

\* the request just served is sent again with other values of the headers the
\* response varies on
ServeVariedAgain ==
    /\ handler.state = "ready"
    /\ last.state = "done"
    /\ \E ae \in {<<>>, <<"gzip">>}, foo \in FooValues :
          last' = Exchange(config, handler,
                           [last.req EXCEPT !.header["Accept-Encoding"] = ae,
                                            !.header["Foo"] = foo])
    /\ prev' = last
    /\ UNCHANGED <<config, handler, etagCall, server, configHandler, cmd,
                   completeCall, procs, wrappers>>

NextVary == Construct \/ ServeVaried \/ ServeVariedAgain

SpecVary == InitVary /\ [][NextVary]_vars

----------------------------------------------------------------------------
(* The configuration file: defaults, paths, validation *)

\* strings.LastIndex, 1-based; 0 when sub does not occur in s
LastIndex(s, sub) ==
    LET at == {i \in 1..Len(s) : SubSeq(s, i, i + Len(sub) - 1) = sub}
    IN  IF at = {} THEN 0 ELSE CHOOSE i \in at : \A j \in at : j <= i

\* the files of the machine the command runs on, and what the configuration
\* files among them decode to
ExistingFiles ==
    {"/etc/console.yaml", "/etc/garbage.yaml", "/etc/pod.yaml", "/etc/tls.crt", "/etc/tls.key"}

FileKind(file) ==
    CASE file = "/etc/console.yaml" -> "WebConsoleConfiguration"
      [] file = "/etc/pod.yaml"     -> "Pod"
      [] OTHER                      -> "undecodable"

\* field.Required, field.Invalid and field.NotSupported
FieldError(type, fld, detail) == [Type |-> type, Field |-> fld, Detail |-> detail]

\* ValidationResults{}
NoResults == [Warnings |-> <<>>, Errors |-> <<>>]

\* ValidationResults.AddErrors and ValidationResults.AddWarnings
AddErrors(r, errors) == [r EXCEPT !.Errors = @ \o errors]

AddWarnings(r, warnings) == [r EXCEPT !.Warnings = @ \o warnings]

\* ValidationResults.Append
Append2(r, additionalResults) ==
    AddWarnings(AddErrors(r, additionalResults.Errors), additionalResults.Warnings)

\* net.SplitHostPort for addresses without brackets: the port follows the
\* only colon
SplitHostPort(hostport) ==
    LET i == LastIndex(hostport, ":")
    IN  IF i = 0 \/ Contains(SubSeq(hostport, 1, i - 1), ":")
        THEN [err |-> TRUE, host |-> "", port |-> ""]
        ELSE [err |-> FALSE, host |-> SubSeq(hostport, 1, i - 1),
              port |-> SubSeq(hostport, i + 1, Len(hostport))]

\* strconv.Atoi: whether the string is a decimal number
AtoiFails(str) ==
    str = "" \/ \E i \in 1..Len(str) : ~Contains("0123456789", CharAt(str, i))

ValidateHostPort(value, fldPath) ==
    IF Len(value) = 0 THEN <<FieldError("Required", fldPath, "")>>
    ELSE IF SplitHostPort(value).err
    THEN <<FieldError("Invalid", fldPath, "must be a host:port")>>
    ELSE <<>>

ValidateFile(path, fldPath) ==
    IF Len(path) = 0 THEN <<FieldError("Required", fldPath, "")>>
    ELSE IF path \notin ExistingFiles
    THEN <<FieldError("Invalid", fldPath, "could not read file")>>
    ELSE <<>>

ValidateCertInfo(certInfo, required, fldPath) ==
    (IF required /\ Len(certInfo.CertFile) = 0
     THEN <<FieldError("Required", fldPath \o ".certFile", "The certificate file must be provided")>>
     ELSE <<>>)
    \o
    (IF required /\ Len(certInfo.KeyFile) = 0
     THEN <<FieldError("Required", fldPath \o ".keyFile", "The certificate key must be provided")>>
     ELSE <<>>)
    \o
    (IF (Len(certInfo.CertFile) = 0) # (Len(certInfo.KeyFile) = 0)
     THEN <<FieldError("Required", fldPath \o ".certFile", "Both or neither"),
            FieldError("Required", fldPath \o ".keyFile", "Both or neither")>>
     ELSE <<>>)
    \o
    (IF Len(certInfo.CertFile) > 0 THEN ValidateFile(certInfo.CertFile, fldPath \o ".certFile")
     ELSE <<>>)
    \o
    (IF Len(certInfo.KeyFile) > 0 THEN ValidateFile(certInfo.KeyFile, fldPath \o ".keyFile")
     ELSE <<>>)

\* crypto.TLSVersion: the names it knows, the empty name standing for the default
TLSVersionKnown(version) ==
    version \in {"", "VersionTLS10", "VersionTLS11", "VersionTLS12"}

\* ValidateServingInfo for a configuration without named certificates and
\* without cipher suites: the loops over them run no iteration
ValidateServingInfo(info, certificatesRequired, fldPath) ==
    LET bind == AddErrors(NoResults, ValidateHostPort(info.BindAddress, fldPath \o ".bindAddress"))
        cert == AddErrors(bind, ValidateCertInfo(info, certificatesRequired, fldPath))
        named == IF Len(info.NamedCertificates) > 0 /\ Len(info.CertFile) = 0
                 THEN AddErrors(cert, <<FieldError("Invalid", fldPath \o ".namedCertificates",
                                                   "a default certificate and key is required")>>)
                 ELSE cert
        network == IF info.BindNetwork \in {"tcp", "tcp4", "tcp6"} THEN named
                   ELSE AddErrors(named, <<FieldError("Invalid", fldPath \o ".bindNetwork",
                                                      "must be 'tcp', 'tcp4', or 'tcp6'")>>)
        ca == IF Len(info.CertFile) > 0
              THEN IF Len(info.ClientCA) > 0
                   THEN AddErrors(network, ValidateFile(info.ClientCA, fldPath \o ".clientCA"))
                   ELSE network
              ELSE IF certificatesRequired /\ Len(info.ClientCA) > 0
                   THEN AddErrors(network, <<FieldError("Invalid", fldPath \o ".clientCA",
                                                        "cannot specify a clientCA without a certFile")>>)
                   ELSE network
    IN  IF TLSVersionKnown(info.MinTLSVersion) THEN ca
        ELSE AddErrors(ca, <<FieldError("NotSupported", fldPath \o ".minTLSVersion", "")>>)

ValidateHTTPServingInfo(info, fldPath) ==
    LET serving == Append2(NoResults, ValidateServingInfo(info, TRUE, fldPath))
        inFlight == IF info.MaxRequestsInFlight < 0
                    THEN AddErrors(serving, <<FieldError("Invalid", fldPath \o ".maxRequestsInFlight",
                                                         "must be zero (no limit) or greater")>>)
                    ELSE serving
    IN  IF info.RequestTimeoutSeconds < -1
        THEN AddErrors(inFlight, <<FieldError("Invalid", fldPath \o ".requestTimeoutSeconds",
                                              "must be -1 (no timeout), 0 (default timeout), or greater")>>)
        ELSE inFlight

\* ValidateURL: the parsed URL (<<>> for nil) and the errors
ValidateURL(urlString, fldPath) ==
    IF UrlParse(urlString).err
    THEN [url |-> <<>>, errs |-> <<FieldError("Invalid", fldPath, "must be a valid URL")>>]
    ELSE [url |-> <<UrlParse(urlString)>>,
          errs |-> (IF Len(UrlParse(urlString).Scheme) = 0
                    THEN <<FieldError("Invalid", fldPath, "must contain a scheme (e.g. https://)")>>
                    ELSE <<>>)
                   \o
                   (IF Len(UrlParse(urlString).Host) = 0
                    THEN <<FieldError("Invalid", fldPath, "must contain a host")>>
                    ELSE <<>>)]

ValidateSecureURL(urlString, fldPath) ==
    IF Len(ValidateURL(urlString, fldPath).errs) = 0
       /\ ValidateURL(urlString, fldPath).url[1].Scheme # "https"
    THEN [url |-> ValidateURL(urlString, fldPath).url,
          errs |-> <<FieldError("Invalid", fldPath, "must use https scheme")>>]
    ELSE ValidateURL(urlString, fldPath)

\* a public URL that may be left out: checked when set, a warning when not
OptionalSecureURL(r, urlString, fldPath, warning) ==
    IF Len(urlString) > 0
    THEN AddErrors(r, ValidateSecureURL(urlString, fldPath).errs)
    ELSE AddWarnings(r, <<FieldError("Invalid", fldPath, warning)>>)

validateClusterInfo(conf, fldPath) ==
    LET console == ValidateURL(conf.ConsolePublicURL, fldPath \o ".consolePublicURL")
        r1 == AddErrors(NoResults, console.errs)
        r2 == IF console.url # <<>> /\ ~HasSuffix(console.url[1].Path, "/")
              THEN AddErrors(r1, <<FieldError("Invalid", fldPath \o ".consolePublicURL",
                                              "must have a trailing slash in path")>>)
              ELSE r1
        r3 == AddErrors(r2, ValidateURL(conf.MasterPublicURL, fldPath \o ".masterPublicURL").errs)
        r4 == OptionalSecureURL(r3, conf.LoggingPublicURL, fldPath \o ".loggingPublicURL",
                                "required to view aggregated container logs in the console")
        r5 == OptionalSecureURL(r4, conf.MetricsPublicURL, fldPath \o ".metricsPublicURL",
                                "required to view cluster metrics in the console")
        r6 == IF Len(conf.AdminConsolePublicURL) > 0
              THEN AddErrors(r5, ValidateSecureURL(conf.AdminConsolePublicURL,
                                                   fldPath \o ".adminConsolePublicURL").errs)
              ELSE r5
    IN  IF Len(conf.LogoutPublicURL) > 0
        THEN AddErrors(r6, ValidateURL(conf.LogoutPublicURL, fldPath \o ".logoutPublicURL").errs)
        ELSE r6

\* the loop of validateExtensions over one list of URLs
RECURSIVE ValidateSecureURLs(_, _)
ValidateSecureURLs(urls, fldPath) ==
    IF urls = <<>> THEN <<>>
    ELSE ValidateSecureURL(Head(urls), fldPath).errs \o ValidateSecureURLs(Tail(urls), fldPath)

validateExtensions(conf, fldPath) ==
    AddErrors(AddErrors(NoResults, ValidateSecureURLs(conf.ScriptURLs, fldPath \o ".scripts")),
              ValidateSecureURLs(conf.StylesheetURLs, fldPath \o ".stylesheets"))

MinimumInactivityTimeoutMinutes == 5

\* a validateFeatures that takes every value below the minimum for too small,
\* the 0 that disables the feature included
validateFeatures_ZeroTooSmall(conf, fldPath) ==
    IF conf.InactivityTimeoutMinutes < MinimumInactivityTimeoutMinutes
    THEN AddErrors(NoResults,
                   <<FieldError("Invalid", fldPath \o ".inactivityTimeoutMinutes",
                                "the minimum acceptable inactivity timeout value is 5 minutes")>>)
    ELSE NoResults

validateFeatures(conf, fldPath) ==
    IF conf.InactivityTimeoutMinutes # 0
       /\ conf.InactivityTimeoutMinutes < MinimumInactivityTimeoutMinutes
    THEN AddErrors(NoResults,
                   <<FieldError("Invalid", fldPath \o ".inactivityTimeoutMinutes",
                                "the minimum acceptable inactivity timeout value is 5 minutes")>>)
    ELSE NoResults

ValidateWebConsoleConfiguration(conf, fldPath) ==
    Append2(Append2(Append2(Append2(NoResults,
        ValidateHTTPServingInfo(conf.ServingInfo, fldPath \o ".servingInfo")),
        validateClusterInfo(conf.ClusterInfo, fldPath \o ".clusterInfo")),
        validateExtensions(conf.Extensions, fldPath \o ".extensions")),
        validateFeatures(conf.Features, fldPath \o ".features"))

\* SetDefaults_ServingInfo, SetDefaults_WebConsoleConfiguration
SetDefaults_ServingInfo(obj) ==
    IF Len(obj.BindNetwork) = 0 THEN [obj EXCEPT !.BindNetwork = "tcp4"] ELSE obj

SetDefaults_WebConsoleConfiguration(obj) ==
    [obj EXCEPT !.ServingInfo = SetDefaults_ServingInfo(@)]

\* ResolvePaths for one reference: empty and absolute paths stay
ResolvePath(ref, base) ==
    IF Len(ref) > 0 /\ ~HasPrefix(ref, "/") THEN PathJoin(base, ref) ELSE ref

\* ResolveWebConsoleConfigurationPaths over GetWebConsoleFileReferences: the
\* certificate, the key and the client CA of the serving info
ResolveWebConsoleConfigurationPaths(conf, base) ==
    [conf EXCEPT !.ServingInfo.CertFile = ResolvePath(@, base),
                   !.ServingInfo.KeyFile = ResolvePath(@, base),
                   !.ServingInfo.ClientCA = ResolvePath(@, base)]

\* path.Dir of a rooted file name
PathDir(file) ==
    IF LastIndex(file, "/") <= 1 THEN "/" ELSE SubSeq(file, 1, LastIndex(file, "/") - 1)

----------------------------------------------------------------------------
(* AssetServerConfig.Complete: what the server asks the master *)

VersionPath == "/version"

OpenShiftVersionPath == "/version/openshift"

BrokerPath ==
    "/apis/servicecatalog.k8s.io/v1beta1/clusterservicebrokers/template-service-broker"

\* json.Unmarshal into a version.Info: the gitVersion member of an object,
\* an error for what is not an object
JsonGitVersion(body) ==
    IF ~HasPrefix(body, "{") \/ ~HasSuffix(body, "}")
    THEN [err |-> "invalid character", GitVersion |-> ""]
    ELSE IF Index(body, "\"gitVersion\":\"") = 0 THEN [err |-> "", GitVersion |-> ""]
    ELSE [err |-> "",
          GitVersion |->
              LET rest == SubSeq(body, Index(body, "\"gitVersion\":\"") + 14, Len(body))
              IN  SubSeq(rest, 1, Index(rest, "\"") - 1)]

\* errors.IsNotFound
IsNotFound(err) == err = "NotFound"

\* return completedConfig{}, err
Failed(err, lookups, receiver) ==
    [cfg |-> <<>>, err |-> err, lookups |-> lookups, receiver |-> receiver]

\* return cfg, nil: cfg.ExtraConfig points to the receiver's ExtraConfig
Completed(extra, lookups) ==
    [cfg |-> <<extra>>, err |-> "", lookups |-> lookups, receiver |-> extra]

\* a last step that asks for the broker whether or not the value is set
CompleteBroker_AlwaysAsks(extra, client, lookups) ==
    IF client.broker = ""
    THEN Completed([extra EXCEPT !.TemplateServiceBrokerEnabled = <<TRUE>>],
                   Append(lookups, BrokerPath))
    ELSE IF IsNotFound(client.broker)
    THEN Completed([extra EXCEPT !.TemplateServiceBrokerEnabled = <<FALSE>>],
                   Append(lookups, BrokerPath))
    ELSE Failed(client.broker, Append(lookups, BrokerPath), extra)

\* the last step of Complete: TemplateServiceBrokerEnabled
CompleteBroker(extra, client, lookups) ==
    IF extra.TemplateServiceBrokerEnabled # <<>> THEN Completed(extra, lookups)
    ELSE IF client.broker = ""
    THEN Completed([extra EXCEPT !.TemplateServiceBrokerEnabled = <<TRUE>>],
                   Append(lookups, BrokerPath))
    ELSE IF IsNotFound(client.broker)
    THEN Completed([extra EXCEPT !.TemplateServiceBrokerEnabled = <<FALSE>>],
                   Append(lookups, BrokerPath))
    ELSE Failed(client.broker, Append(lookups, BrokerPath), extra)

\* the step before: OpenShiftVersion
CompleteOpenShiftVersion(extra, client, lookups) ==
    IF Len(extra.OpenShiftVersion) # 0 THEN CompleteBroker(extra, client, lookups)
    ELSE IF client.openshiftVersion.err # ""
    THEN Failed(client.openshiftVersion.err, Append(lookups, OpenShiftVersionPath), extra)
    ELSE IF JsonGitVersion(client.openshiftVersion.body).err # ""
    THEN Failed(JsonGitVersion(client.openshiftVersion.body).err,
                Append(lookups, OpenShiftVersionPath), extra)
    ELSE CompleteBroker(
             [extra EXCEPT !.OpenShiftVersion = JsonGitVersion(client.openshiftVersion.body).GitVersion],
             client, Append(lookups, OpenShiftVersionPath))

\* the first step: KubeVersion
CompleteKubeVersion(extra, client, lookups) ==
    IF Len(extra.KubeVersion) # 0 THEN CompleteOpenShiftVersion(extra, client, lookups)
    ELSE IF client.version.err # ""
    THEN Failed(client.version.err, Append(lookups, VersionPath), extra)
    ELSE IF JsonGitVersion(client.version.body).err # ""
    THEN Failed(JsonGitVersion(client.version.body).err, Append(lookups, VersionPath), extra)
    ELSE CompleteOpenShiftVersion(
             [extra EXCEPT !.KubeVersion = JsonGitVersion(client.version.body).GitVersion],
             client, Append(lookups, VersionPath))

\* AssetServerConfig.Complete on a receiver with ExtraConfig extra, the master
\* answering as client says
AssetServerConfigComplete(extra, client) ==
    IF client.newForConfig # "" THEN Failed(client.newForConfig, <<>>, extra)
    ELSE CompleteKubeVersion(extra, client, <<>>)

\* what the master answers to a version request
VersionReplies(gitVersion) ==
    { [err |-> "", body |-> "{\"major\":\"1\",\"gitVersion\":\"" \o gitVersion \o "\"}"],
      [err |-> "", body |-> "<html>502</html>"],
      [err |-> "ServiceUnavailable", body |-> ""] }

\* what it answers to the request for the broker: "" stands for success
BrokerReplies == {"", "NotFound", "Forbidden", "ServiceUnavailable"}

Clients ==
    { [newForConfig |-> n, version |-> v, openshiftVersion |-> ov, broker |-> b] :
      n \in {"", "invalid configuration"},
      v \in VersionReplies("v1.9.1"), ov \in VersionReplies("v3.9.0"),
      b \in BrokerReplies }

\* a master that answers every request
GoodClient ==
    [newForConfig |-> "",
     version |-> [err |-> "", body |-> "{\"major\":\"1\",\"gitVersion\":\"v1.9.1\"}"],
     openshiftVersion |-> [err |-> "", body |-> "{\"major\":\"1\",\"gitVersion\":\"v3.9.0\"}"],
     broker |-> ""]

\* the options of a configuration file that passes the validation
GoodOptions ==
    [ServingInfo |->
        [BindAddress |-> "0.0.0.0:8443", BindNetwork |-> "tcp4",
         CertFile |-> "/etc/tls.crt", KeyFile |-> "/etc/tls.key", ClientCA |-> "",
         NamedCertificates |-> <<>>, MinTLSVersion |-> "", CipherSuites |-> <<>>,
         MaxRequestsInFlight |-> 0, RequestTimeoutSeconds |-> 0],
     ClusterInfo |->
        [ConsolePublicURL |-> "https://c/", MasterPublicURL |-> "https://m:8443",
         LoggingPublicURL |-> "", MetricsPublicURL |-> "https://h/m",
         AdminConsolePublicURL |-> "", LogoutPublicURL |-> ""],
     Extensions |->
        [ScriptURLs |-> ExtensionScripts, StylesheetURLs |-> ExtensionStylesheets,
         Properties |-> <<[Key |-> "k", Value |-> "v's"]>>],
     Features |->
        [InactivityTimeoutMinutes |-> 15, ClusterResourceOverridesEnabled |-> FALSE]]

\* the ExtraConfig of the receivers Complete is called on: each of the three
\* values set beforehand or not
ExtraConfigs ==
    { [Options |-> GoodOptions, PublicURL |-> UrlParse("https://c/"),
       KubeVersion |-> k, OpenShiftVersion |-> o, TemplateServiceBrokerEnabled |-> t] :
      k \in {"", "v1.8.0"}, o \in {"", "v3.7.0"}, t \in {<<>>, <<TRUE>>, <<FALSE>>} }

InitComplete ==
    /\ config \in {c \in Configs : c.chain = <<"html5">> /\ c.contextRoot = "/console/"
                                    /\ DOMAIN c.subcontextMap = {""}}
    /\ handler = NoHandler
    /\ last = NoExchange
    /\ prev = NoExchange
    /\ etagCall = [state |-> "none"]
    /\ server = NoServer
    /\ configHandler = NoConfigHandler
    /\ cmd = [pc |-> "none"]
    /\ completeCall \in {[state |-> "none", extra |-> e, client |-> c] :
                           e \in ExtraConfigs, c \in Clients}
    /\ procs = <<>>
    /\ wrappers = <<>>

\* c.Complete()
CallComplete ==
    /\ completeCall.state = "none"
    /\ completeCall' = [state |-> "done", extra |-> completeCall.extra,
                        client |-> completeCall.client,
                        result |-> AssetServerConfigComplete(completeCall.extra,
                                                             completeCall.client)]
    /\ UNCHANGED <<config, handler, last, prev, etagCall, server, configHandler,
                   cmd, procs, wrappers>>

NextComplete == CallComplete

SpecComplete == InitComplete /\ [][NextComplete]_vars

----------------------------------------------------------------------------
(* The start command: Complete, Validate, RunWebConsoleServer *)

MaxTimeout == 6

\* values of features.inactivityTimeoutMinutes, negative ones among them
TimeoutValues == (0 - MaxTimeout)..MaxTimeout

\* the configurations /etc/console.yaml may hold: every timeout with and
\* without the optional public URLs, and the serving info and the console's
\* public URL right or wrong
FileConfigs ==
    { [GoodOptions EXCEPT
          !.ServingInfo.BindNetwork = "",
          !.ServingInfo.CertFile = "tls.crt",
          !.ServingInfo.KeyFile = "tls.key",
          !.ClusterInfo.LoggingPublicURL = lu,
          !.ClusterInfo.MetricsPublicURL = mu,
          !.Features.InactivityTimeoutMinutes = t] :
      lu \in {"", "https://l/", "http://l/"},
      mu \in {"", "https://h/m"},
      t \in TimeoutValues }
    \cup
    { [GoodOptions EXCEPT
          !.ServingInfo.BindAddress = ba,
          !.ServingInfo.BindNetwork = bn,
          !.ServingInfo.CertFile = cert[1],
          !.ServingInfo.KeyFile = cert[2],
          !.ClusterInfo.ConsolePublicURL = cu] :
      ba \in {"0.0.0.0:8443", "0.0.0.0:https", "0.0.0.0"},
      bn \in {"", "udp"},
      cert \in {<<"tls.crt", "tls.key">>, <<"", "">>},
      cu \in {"https://c/", "https://c"} }

\* the masters the command may find
StartClients ==
    { GoodClient,
      [GoodClient EXCEPT !.broker = "NotFound"],
      [GoodClient EXCEPT !.broker = "Forbidden"],
      [GoodClient EXCEPT !.version = [err |-> "ServiceUnavailable", body |-> ""]] }

\* the --config flag, what the file holds, the master
StartInputs ==
    { [configFile |-> "/etc/console.yaml", decoded |-> d, client |-> c] :
      d \in FileConfigs, c \in StartClients }
    \cup
    { [configFile |-> f, decoded |-> GoodOptions, client |-> GoodClient] :
      f \in {"", "/etc/missing.yaml", "/etc/garbage.yaml", "/etc/pod.yaml"} }

\* NewWebConsoleServerOptions: no configuration yet
NewWebConsoleServerOptions == [WebConsoleConfig |-> <<>>]

\* WebConsoleServerOptions.Complete: the options afterwards and the error
OptionsComplete(o, configFile, decoded) ==
    IF Len(configFile) = 0 THEN [o |-> o, err |-> ""]
    ELSE IF configFile \notin ExistingFiles THEN [o |-> o, err |-> "no such file"]
    ELSE IF FileKind(configFile) = "undecodable" THEN [o |-> o, err |-> "cannot decode"]
    ELSE IF FileKind(configFile) # "WebConsoleConfiguration"
    THEN [o |-> o, err |-> "unexpected type"]
    ELSE [o |-> [o EXCEPT !.WebConsoleConfig =
                    <<ResolveWebConsoleConfigurationPaths(
                          SetDefaults_WebConsoleConfiguration(decoded), PathDir(configFile))>>],
          err |-> ""]

\* a Validate that refuses a configuration with warnings
Validate_WarningsRefused(o) ==
    IF o.WebConsoleConfig = <<>>
    THEN [err |-> "missing config: specify --config", results |-> NoResults]
    ELSE [err |-> IF Len(ValidateWebConsoleConfiguration(o.WebConsoleConfig[1], "config").Errors) # 0
                     \/ Len(ValidateWebConsoleConfiguration(o.WebConsoleConfig[1], "config").Warnings) # 0
                  THEN "Invalid" ELSE "",
          results |-> ValidateWebConsoleConfiguration(o.WebConsoleConfig[1], "config")]

\* WebConsoleServerOptions.Validate: the error and the validation results
Validate(o) ==
    IF o.WebConsoleConfig = <<>>
    THEN [err |-> "missing config: specify --config", results |-> NoResults]
    ELSE [err |-> IF Len(ValidateWebConsoleConfiguration(o.WebConsoleConfig[1], "config").Errors) # 0
                  THEN "Invalid" ELSE "",
          results |-> ValidateWebConsoleConfiguration(o.WebConsoleConfig[1], "config")]

\* NewAssetServerConfig
NewAssetServerConfig(options) ==
    IF UrlParse(options.ClusterInfo.ConsolePublicURL).err
    THEN [err |-> "parse", ExtraConfig |-> <<>>]
    ELSE [err |-> "",
          ExtraConfig |-> <<[Options |-> options,
                             PublicURL |-> UrlParse(options.ClusterInfo.ConsolePublicURL),
                             KubeVersion |-> "", OpenShiftVersion |-> "",
                             TemplateServiceBrokerEnabled |-> <<>>]>>]

\* WebConsoleServerOptions.Config: the listener from the bind address, then
\* the server configuration
Config(o) ==
    IF SplitHostPort(o.WebConsoleConfig[1].ServingInfo.BindAddress).err
    THEN [err |-> "missing port in address", ExtraConfig |-> <<>>]
    ELSE IF AtoiFails(SplitHostPort(o.WebConsoleConfig[1].ServingInfo.BindAddress).port)
    THEN [err |-> "invalid syntax", ExtraConfig |-> <<>>]
    ELSE NewAssetServerConfig(o.WebConsoleConfig[1])

\* the options completedConfig.New reads from the completed configuration
OptionsOf(extra) ==
    [MasterPublicURL |-> extra.Options.ClusterInfo.MasterPublicURL,
     ConsolePublicURL |-> extra.Options.ClusterInfo.ConsolePublicURL,
     LogoutPublicURL |-> extra.Options.ClusterInfo.LogoutPublicURL,
     LoggingPublicURL |-> extra.Options.ClusterInfo.LoggingPublicURL,
     MetricsPublicURL |-> extra.Options.ClusterInfo.MetricsPublicURL,
     InactivityTimeoutMinutes |-> extra.Options.Features.InactivityTimeoutMinutes,
     ClusterResourceOverridesEnabled |-> extra.Options.Features.ClusterResourceOverridesEnabled,
     TemplateServiceBrokerEnabled |-> extra.TemplateServiceBrokerEnabled,
     ExtensionProperties |-> extra.Options.Extensions.Properties,
     ConsoleVersion |-> "v3.9"]

\* the command after one of its three calls has returned err
Stepped(c, name, err, next) ==
    [c EXCEPT !.steps = Append(@, [name |-> name, err |-> err]),
              !.pc = IF err = "" THEN next ELSE "failed"]

InitStart ==
    /\ config \in {c \in Configs : c.chain = <<"gzip", "security", "html5">>
                                    /\ DOMAIN c.subcontextMap = {"", "java"}}
    /\ handler = NoHandler
    /\ last = NoExchange
    /\ prev = NoExchange
    /\ etagCall = [state |-> "none"]
    /\ server = NoServer
    /\ configHandler = NoConfigHandler
    /\ cmd \in {[pc |-> "Complete", input |-> in, o |-> NewWebConsoleServerOptions,
                 steps |-> <<>>, results |-> NoResults, lookups |-> <<>>] :
                in \in StartInputs}
    /\ completeCall = [state |-> "none"]
    /\ procs = <<>>
    /\ wrappers = <<>>

\* RunE: o.Complete(c)
RunComplete ==
    /\ cmd.pc = "Complete"
    /\ LET done == OptionsComplete(cmd.o, cmd.input.configFile, cmd.input.decoded)
       IN  cmd' = Stepped([cmd EXCEPT !.o = done.o], "Complete", done.err, "Validate")
    /\ UNCHANGED <<config, handler, last, prev, etagCall, server, configHandler,
                   completeCall, procs, wrappers>>

\* RunE: o.Validate(args)
RunValidate ==
    /\ cmd.pc = "Validate"
    /\ cmd' = Stepped([cmd EXCEPT !.results = Validate(cmd.o).results],
                      "Validate", Validate(cmd.o).err, "RunWebConsoleServer")
    /\ UNCHANGED <<config, handler, last, prev, etagCall, server, configHandler,
                   completeCall, procs, wrappers>>

\* RunE: o.RunWebConsoleServer(stopCh): Config, Complete, New, and the server
\* runs
RunWebConsoleServer ==
    /\ cmd.pc = "RunWebConsoleServer"
    /\ IF Config(cmd.o).err # ""
       THEN /\ cmd' = Stepped(cmd, "RunWebConsoleServer", Config(cmd.o).err, "serving")
            /\ UNCHANGED <<config, handler, server, configHandler>>
       ELSE LET completed == AssetServerConfigComplete(Config(cmd.o).ExtraConfig[1],
                                                       cmd.input.client)
            IN  IF completed.err # ""
                THEN /\ cmd' = Stepped([cmd EXCEPT !.lookups = completed.lookups],
                                       "RunWebConsoleServer", completed.err, "serving")
                     /\ UNCHANGED <<config, handler, server, configHandler>>
                ELSE \E order \in Orders(config.subcontextMap) :
                        LET cfg == [config EXCEPT
                                       !.contextRoot = completed.cfg[1].PublicURL.Path]
                            built == NewServer(cfg, NewHTML5ModeHandler(cfg, order),
                                               OptionsOf(completed.cfg[1]))
                        IN  /\ config' = cfg
                            /\ handler' = built.handler
                            /\ server' = built.server
                            /\ configHandler' = built.configHandler
                            /\ cmd' = Stepped([cmd EXCEPT !.lookups = completed.lookups],
                                              "RunWebConsoleServer",
                                              IF built.server.state = "serving" THEN ""
                                              ELSE "asset not found",
                                              "serving")
    /\ UNCHANGED <<last, prev, etagCall, completeCall, procs, wrappers>>

NextStart == RunComplete \/ RunValidate \/ RunWebConsoleServer

SpecStart == InitStart /\ [][NextStart]_vars

----------------------------------------------------------------------------
(* Requests in flight together: net/http runs the handler chain once per     *)
(* request, each call on its own goroutine, its own request and its own      *)
(* response writer.  A call is cut at the handler boundaries, so the calls   *)
(* interleave in any order.  What GzipHandler allocates per call (the        *)
(* compressor and the gzipResponseWriter with its sniffDone flag) lives in a *)
(* heap of wrappers the calls reach by reference.                            *)

MaxInFlight == 2

\* the goroutines serving requests
ProcIds == 1..MaxInFlight

\* the requests that are in flight together
ConcurrentRequests ==
    { [path |-> "/scripts/vendor.js",
       header |-> [n \in ReqHeaderNames |-> IF n = "Accept-Encoding" THEN <<"gzip">> ELSE <<>>]],
      [path |-> "/scripts/vendor.js",
       header |-> [n \in ReqHeaderNames |->
                      IF n = "Accept-Encoding" THEN <<"gzip">> ELSE <<"W/\"1234_677a6970\"">>]],
      [path |-> "/projects/my-project",
       header |-> [n \in ReqHeaderNames |-> <<>>]],
      [path |-> "/projects/my-project",
       header |-> [n \in ReqHeaderNames |-> IF n = "Accept-Encoding" THEN <<"gzip">> ELSE <<>>]],
      [path |-> "/config.js",
       header |-> [n \in ReqHeaderNames |-> IF n = "Accept-Encoding" THEN <<"gzip">> ELSE <<>>]],
      [path |-> "/",
       header |-> [n \in ReqHeaderNames |-> <<>>]] }

\* one compressor and one gzipResponseWriter made when the chain is assembled
\* and used by every call
WrapperOf_Shared(p) == 1

\* the wrapper of the call on goroutine p: gzip.NewWriter and
\* &gzipResponseWriter{} are evaluated inside the handler function, so every
\* call has a wrapper of its own
WrapperOf(p) == p

\* a heap cell no call has allocated yet
NoWrapper ==
    [gz |-> [state |-> "none", wroteHeader |-> FALSE, buf |-> ""],
     sniffDone |-> FALSE, users |-> {}]

NoProc == [pc |-> "idle"]

\* the call's view of its wrapper: a call that holds one reads it from the heap
Load(heap, p, ctx) ==
    IF ctx.writer = "gzip"
    THEN [ctx EXCEPT !.gz = heap[WrapperOf(p)].gz,
                     !.sniffDone = heap[WrapperOf(p)].sniffDone]
    ELSE ctx

\* the heap after a step of the call on p: what the call did to its wrapper,
\* and the call recorded among the wrapper's users
Store(heap, p, ctx) ==
    IF ctx.writer = "gzip"
    THEN [heap EXCEPT ![WrapperOf(p)] =
             [gz |-> ctx.gz, sniffDone |-> ctx.sniffDone, users |-> @.users \cup {p}]]
    ELSE heap

\* the handler chain up to the handler the mux picks: the redirect wrapper,
\* then the mux's routes; rest is the chain the call still has to run
Route(srv, cfg, ctx) ==
    LET c == Traced(IF ctx.r.path = "/" THEN HttpRedirect(ctx, cfg.contextRoot, 302)
                    ELSE ctx,
                    "redirect.handler.ServeHTTP")
    IN  IF [kind |-> "exact", path |-> c.r.path] \in srv.routes /\ c.r.path = ConfigPath(cfg)
        THEN [rest |-> ConfigChain, ctx |-> c]
        ELSE IF [kind |-> "exact", path |-> c.r.path] \in srv.routes
        THEN [rest |-> <<>>, ctx |-> BaseWriteHeader(c, 301)]
        ELSE IF \E rt \in srv.routes : rt.kind = "prefix" /\ HasPrefix(c.r.path, rt.path)
        THEN [rest |-> cfg.chain, ctx |-> [c EXCEPT !.r = StripPrefix(cfg.contextRoot, @)]]
        ELSE [rest |-> <<>>, ctx |-> BaseWriteHeader(c, 404)]

\* one handler of the chain, from its entry to the call of the next handler
\* (or to its return, for the handler the chain ends with)
LayerStep(layer, cfg, hd, ch, ctx) ==
    CASE layer = "gzip"     -> IF AcceptsGzip(ctx.r)
                               THEN Delegate(GzipWrap(GzipVary(ctx)))
                               ELSE Delegate(GzipVary(ctx))
      [] layer = "security" -> SecurityHeaders(ctx)
      [] layer = "html5"    -> HTML5ModeServe(cfg, hd, ctx)
      [] layer = "config"   -> GeneratedConfigServe(ch.content, ctx)

\* the handlers have returned: GzipHandler's deferred gz.Close() runs if the
\* call went through the gzip branch
Unwind(ctx) ==
    IF ctx.writer = "gzip" THEN GzipDone(ctx) ELSE ctx

\* the options the server of the concurrent requests was built with
ConcurrentOptions ==
    CHOOSE o \in ServerOptions :
        /\ o.MasterPublicURL = "https://m:8443"
        /\ o.LogoutPublicURL = ""
        /\ o.TemplateServiceBrokerEnabled = <<>>

\* the console the concurrent requests are sent to
ConcurrentConfigs ==
    { c \in Configs : /\ c.chain = <<"gzip", "security", "html5">>
                      /\ DOMAIN c.subcontextMap = {"", "java"}
                      /\ c.subcontextMap["java"] = "java/index.html" }

\* the server is built and listening; no request has arrived
InitConcurrent ==
    /\ config \in ConcurrentConfigs
    /\ \E order \in Orders(config.subcontextMap) :
          LET built == NewServer(config, NewHTML5ModeHandler(config, order),
                                 ConcurrentOptions)
          IN  /\ handler = built.handler
              /\ server = built.server
              /\ configHandler = built.configHandler
    /\ last = NoExchange
    /\ prev = NoExchange
    /\ etagCall = [state |-> "none"]
    /\ cmd = [pc |-> "none"]
    /\ completeCall = [state |-> "none"]
    /\ procs = [p \in ProcIds |-> NoProc]
    /\ wrappers = [p \in ProcIds |-> NoWrapper]

\* a request arrives on goroutine p: the redirect wrapper and the mux run;
\* among is the set of calls that are in flight at that moment
Start(p) ==
    /\ server.state = "serving"
    /\ procs[p].pc = "idle"
    /\ \E req \in ConcurrentRequests :
          LET route == Route(server, config, NewContext(req))
          IN  procs' = [procs EXCEPT ![p] =
                           [pc |-> "running", req |-> req,
                            among |-> {q \in ProcIds : procs[q].pc = "running"},
                            rest |-> route.rest, ctx |-> route.ctx]]
    /\ UNCHANGED <<config, handler, last, prev, etagCall, server, configHandler,
                   cmd, completeCall, wrappers>>

\* the call on goroutine p runs its next handler
Step(p) ==
    /\ procs[p].pc = "running"
    /\ procs[p].rest # <<>>
    /\ LET layer == Head(procs[p].rest)
           out   == LayerStep(layer, config, handler, configHandler,
                              Load(wrappers, p, procs[p].ctx))
       IN  /\ procs' = [procs EXCEPT ![p].ctx = out,
                                     ![p].rest = IF layer \in {"html5", "config"}
                                                 THEN <<>> ELSE Tail(@)]
           /\ wrappers' = Store(wrappers, p, out)
    /\ UNCHANGED <<config, handler, last, prev, etagCall, server, configHandler,
                   cmd, completeCall>>

\* the handlers of the call on goroutine p return, and the response is
\* complete
Finish(p) ==
    /\ procs[p].pc = "running"
    /\ procs[p].rest = <<>>
    /\ LET out == Unwind(Load(wrappers, p, procs[p].ctx))
       IN  /\ wrappers' = Store(wrappers, p, out)
           /\ procs' = [procs EXCEPT ![p].pc = "done",
                                     ![p].ctx = [out EXCEPT !.writer = "base"]]
    /\ UNCHANGED <<config, handler, last, prev, etagCall, server, configHandler,
                   cmd, completeCall>>

NextConcurrent == \E p \in ProcIds : Start(p) \/ Step(p) \/ Finish(p)

SpecConcurrent == InitConcurrent /\ [][NextConcurrent]_vars

----------------------------------------------------------------------------
(* What the properties below read off an exchange *)

RECURSIVE ConcatData(_)
ConcatData(chunks) == IF chunks = <<>> THEN "" ELSE Head(chunks).data \o ConcatData(Tail(chunks))

\* the bytes the handlers under GzipHandler wrote to the writer they were handed
Plain(x) == IF x.gz.state = "none" THEN ConcatData(x.w.body) ELSE x.gz.buf

\* the values of a response header, as a set
Values(x, name) == {x.w.header[name][i] : i \in 1..Len(x.w.header[name])}

\* the lookup key of the request
UrlPathOf(x) == TrimPrefix(x.req.path, "/")

\* path equals key, or lies below it on a path-segment boundary
Under(path, key) == path = key \/ HasPrefix(path, key \o "/")

Keys == DOMAIN config.subcontextMap

KeysOver(path) == {k \in Keys : Under(path, k)}

Longest(keys) == CHOOSE k \in keys : \A j \in keys : Len(k) >= Len(j)

ProperPrefix(a, b) == Len(a) < Len(b) /\ HasPrefix(b, a)

Served == last.state = "done" /\ UsesHTML5(config)

\* the ETag of the request as the HTML5 handler received it
EtagOf(x) ==
    generateEtag(x.r, config.version,
                 IF HGet(x.w.header, "Vary") = "" THEN <<>>
                 ELSE VarySplit(HGet(x.w.header, "Vary")))

----------------------------------------------------------------------------
(* Properties of HTML5ModeHandler *)

\* C1: a request whose stripped path is not an asset and equals a configured
\* subcontext key, or starts with the key and a slash, is answered with exactly
\* the derived index document stored for the matched (longest such) subcontext,
\* with Cache-Control: no-cache, no-store.
C1_FallbackServesIndex ==
    (Served /\ ~AssetFound(UrlPathOf(last)) /\ KeysOver(UrlPathOf(last)) # {}) =>
        /\ Plain(last) = handler.subcontextData[Longest(KeysOver(UrlPathOf(last)))]
        /\ "no-cache, no-store" \in Values(last, "Cache-Control")
        /\ (config.chain = <<"html5">> =>
              last.w.body = <<[enc |-> "identity",
                               data |-> handler.subcontextData[Longest(KeysOver(UrlPathOf(last)))]]>>)

C1_Witness ==
    /\ Served /\ config.chain = <<"html5">>
    /\ UrlPathOf(last) = "java/foo/bar"
    /\ Keys = {"", "java"}
    /\ last.fallback = <<"java">>
    /\ last.w.code = 200

\* C2: when one configured key is a proper prefix of another, a request for a
\* missing asset under the longer key is answered with the document of the
\* longest key the path lies under and never with the shorter key's document,
\* whatever order the constructor ranged over the map in.
C2_LongestPrefixWins ==
    Served =>
        \A k1, k2 \in Keys :
            (ProperPrefix(k1, k2) /\ Under(UrlPathOf(last), k2) /\ ~AssetFound(UrlPathOf(last))) =>
                /\ Plain(last) = handler.subcontextData[Longest(KeysOver(UrlPathOf(last)))]
                /\ Len(Longest(KeysOver(UrlPathOf(last)))) >= Len(k2)
                /\ Plain(last) # handler.subcontextData[k1]
                /\ last.fallback # <<k1>>

C2_Witness ==
    /\ Served
    /\ Keys = {"", "java", "java/foo"}
    /\ UrlPathOf(last) = "java"
    /\ Plain(last) = handler.subcontextData["java"]

\* C3: matching is on path-segment boundaries: the index document of a
\* non-empty subcontext K is served only for a path that equals K or starts
\* with K and a slash; javascript-thing never gets the document of java.
C3_SegmentBoundary ==
    Served =>
        \A k \in Keys \ {""} :
            (last.fallback = <<k>> \/ Plain(last) = handler.subcontextData[k]) =>
                Under(UrlPathOf(last), k)

C3_Witness ==
    /\ Served
    /\ UrlPathOf(last) = "javascript-thing"
    /\ "java" \in Keys
    /\ last.fallback = <<"">>

\* C4: the fallback depends only on the exact path being absent from the
\* store: when the lookup succeeds no index document is written and the
\* request gets the ETag handling (304, or the terminal handler with an ETag);
\* an index document is written only when the lookup failed.
C4_ExactLookupDecides ==
    Served =>
        /\ AssetFound(UrlPathOf(last)) =>
              /\ last.fallback = <<>>
              /\ \A k \in Keys : Plain(last) # handler.subcontextData[k]
              /\ \/ last.w.code = 304 /\ last.terminal = <<>>
                 \/ /\ Len(last.terminal) = 1
                    /\ last.w.header["ETag"] = <<EtagOf(last)>>
        /\ last.fallback # <<>> => ~AssetFound(UrlPathOf(last))

C4_Witness ==
    /\ Served
    /\ UrlPathOf(last) = "java/app.js"
    /\ "java" \in Keys
    /\ Len(last.terminal) = 1

\* C5: for a static asset, If-None-Match equal to the ETag computed for the
\* request gives 304 and an empty body; any other value gives 200 and the
\* body the terminal handler writes.
C5_ConditionalRoundTrip ==
    (Served /\ AssetFound(UrlPathOf(last))) =>
        IF HGet(last.r.header, "If-None-Match") = EtagOf(last)
        THEN /\ last.w.code = 304
             /\ Plain(last) = ""
             /\ last.terminal = <<>>
             /\ (config.chain = <<"html5">> => last.w.body = <<>>)
        ELSE /\ last.w.code = 200
             /\ Plain(last) = config.response
             /\ Len(last.terminal) = 1

C5_Witness ==
    /\ Served /\ config.chain = <<"html5">>
    /\ UrlPathOf(last) = "scripts/vendor.js"
    /\ last.req.header["If-None-Match"] = <<"W/\"1234_\"">>
    /\ last.w.code = 304

\* C6: a fallback response is never revalidated: it is not a 304 and has no
\* ETag header, even when If-None-Match is the ETag of the request.
C6_FallbackNotCached ==
    (Served /\ ~AssetFound(UrlPathOf(last)) /\ KeysOver(UrlPathOf(last)) # {}) =>
        /\ last.w.code # 304
        /\ last.w.header["ETag"] = <<>>
        /\ last.fallback # <<>>

C6_Witness ==
    /\ Served
    /\ last.fallback # <<>>
    /\ HGet(last.r.header, "If-None-Match") = EtagOf(last)
    /\ last.w.code = 200

----------------------------------------------------------------------------
(* Properties of generateEtag *)

LowerHexDigits == "0123456789abcdef"

IsLowerHex(s) == \A i \in 1..Len(s) : Index(LowerHexDigits, CharAt(s, i)) # 0

\* the character of a byte value
Chr(n) == IF n < 96 THEN CharAt(AsciiLow, n - 31) ELSE CharAt(AsciiHigh, n - 96)

\* the bytes a string of hex digit pairs stands for
RECURSIVE HexDecode(_)
HexDecode(s) ==
    IF Len(s) < 2 THEN ""
    ELSE Chr(16 * (Index(LowerHexDigits, CharAt(s, 1)) - 1)
               + (Index(LowerHexDigits, CharAt(s, 2)) - 1))
             \o HexDecode(SubSeq(s, 3, Len(s)))

\* the first value of each named header of r, in the order of names; nothing
\* for a header r does not carry
RECURSIVE FirstValues(_, _)
FirstValues(r, names) ==
    IF names = <<>> THEN ""
    ELSE (IF Head(names) \in DOMAIN r.header /\ Len(r.header[Head(names)]) > 0
          THEN r.header[Head(names)][1] ELSE "")
             \o FirstValues(r, Tail(names))

\* the text of an ETag between the version's underscore and the closing quote
EtagPayload(etag, version) == SubSeq(etag, Len(version) + 5, Len(etag) - 1)

\* C7: generateEtag(r, version, varyHeaders) is W/"<version>_<h>" with h the
\* lowercase hex of the request's values of the varyHeaders, concatenated in
\* list order (nothing for a missing header, nothing for headers not listed);
\* with an empty list it is W/"<version>_".
C7_EtagFormat ==
    etagCall.state = "done" =>
        /\ HasPrefix(etagCall.etag, "W/\"" \o etagCall.version \o "_")
        /\ HasSuffix(etagCall.etag, "\"")
        /\ Len(etagCall.etag) =
              Len(etagCall.version) + 5 + 2 * Len(FirstValues(etagCall.r, etagCall.varyHeaders))
        /\ IsLowerHex(EtagPayload(etagCall.etag, etagCall.version))
        /\ HexDecode(EtagPayload(etagCall.etag, etagCall.version))
              = FirstValues(etagCall.r, etagCall.varyHeaders)
        /\ (etagCall.varyHeaders = <<>> =>
              etagCall.etag = "W/\"" \o etagCall.version \o "_\"")
        /\ (/\ etagCall.version = "1234"
            /\ etagCall.varyHeaders = <<"Foo", "Bar">>
            /\ etagCall.r.header["Foo"] = <<"123">>
            /\ etagCall.r.header["Bar"] = <<"456">>)
              => etagCall.etag = "W/\"1234_313233343536\""

C7_Witness ==
    /\ etagCall.state = "done"
    /\ etagCall.varyHeaders = <<"Bar", "Baz">>
    /\ etagCall.r.header["Foo"] = <<"123">>
    /\ etagCall.r.header["Bar"] = <<"7", "89">>
    /\ etagCall.etag = "W/\"1234_37\""

----------------------------------------------------------------------------
(* Properties of GzipHandler and of the chain GzipHandler(HTML5ModeHandler) *)

GzipOutermost == config.chain[1] = "gzip"

\* the request's Accept-Encoding as the client sent it
AcceptEncodingOf(x) == HGet(x.req.header, "Accept-Encoding")

\* last repeats prev: the same path, the same If-None-Match
Repeated ==
    /\ prev.state = "done"
    /\ last.state = "done"
    /\ prev.req.path = last.req.path
    /\ prev.req.header["If-None-Match"] = last.req.header["If-None-Match"]

RECURSIVE TrimSpace(_)
TrimSpace(s) ==
    IF s # "" /\ IsSpace(Head(s)) THEN TrimSpace(Tail(s))
    ELSE IF s # "" /\ IsSpace(CharAt(s, Len(s))) THEN TrimSpace(SubSeq(s, 1, Len(s) - 1))
    ELSE s

\* the content-coding of one element of Accept-Encoding, its parameters cut off
CodingName(item) ==
    TrimSpace(IF Index(item, ";") = 0 THEN item ELSE SubSeq(item, 1, Index(item, ";") - 1))

\* is gzip one of the content-codings the header lists
HasGzipToken(ae) ==
    \E i \in 1..Len(VarySplit(ae)) : CodingName(VarySplit(ae)[i]) = "gzip"

\* C8: under GzipHandler(HTML5ModeHandler), a request for a static asset that
\* accepts gzip and a request for the same asset without Accept-Encoding get
\* different ETag headers.
C8_EtagVariesWithGzip ==
    (/\ Repeated /\ GzipOutermost /\ UsesHTML5(config)
     /\ AssetFound(UrlPathOf(last))
     /\ \E x, y \in {prev, last} :
           x.req.header["Accept-Encoding"] = <<>> /\ HasGzipToken(AcceptEncodingOf(y)))
    => /\ HGet(prev.w.header, "ETag") # HGet(last.w.header, "ETag")
       /\ \A x \in {prev, last} : x.w.code = 200 => HGet(x.w.header, "ETag") = EtagOf(x)

C8_Witness ==
    /\ Repeated /\ config.chain = <<"gzip", "html5">>
    /\ UrlPathOf(last) = "scripts/vendor.js"
    /\ prev.req.header["Accept-Encoding"] = <<>>
    /\ last.req.header["Accept-Encoding"] = <<"gzip">>
    /\ prev.w.header["ETag"] = <<"W/\"1234_\"">>
    /\ last.w.header["ETag"] = <<"W/\"1234_677a6970\"">>

\* C9: two requests that differ only in Accept-Encoding values which both
\* contain gzip are both passed on with Accept-Encoding: gzip and get the same
\* ETag header.
C9_NormalizedAcceptEncoding ==
    (/\ Repeated /\ GzipOutermost
     /\ Contains(AcceptEncodingOf(prev), "gzip")
     /\ Contains(AcceptEncodingOf(last), "gzip")
     /\ AcceptEncodingOf(prev) # AcceptEncodingOf(last))
    => /\ \A x \in {prev, last} :
             /\ Len(x.delegated) = 1
             /\ x.delegated[1].header["Accept-Encoding"] = <<"gzip">>
       /\ prev.w.header["ETag"] = last.w.header["ETag"]

C9_Witness ==
    /\ Repeated /\ config.chain = <<"gzip", "html5">>
    /\ UrlPathOf(last) = "scripts/vendor.js"
    /\ prev.req.header["Accept-Encoding"] = <<"gzip">>
    /\ last.req.header["Accept-Encoding"] = <<"deflate, gzip;q=0.8">>
    /\ last.w.header["ETag"] = <<"W/\"1234_677a6970\"">>

\* GzipHandler passed the request and the writer on as they came: nothing
\* rewritten, nothing compressed
DelegatedUnmodified(x) ==
    /\ x.delegated = <<[writer |-> "base", header |-> x.req.header]>>
    /\ x.r = x.req
    /\ x.w.header["Content-Encoding"] = <<>>
    /\ x.gz.state = "none"
    /\ \A i \in 1..Len(x.w.body) : x.w.body[i].enc = "identity"

\* C10 as stated: a request whose Accept-Encoding lists no content-coding gzip
\* (no header, or a list without the token gzip) is delegated unmodified.
C10_NoGzipToken ==
    (last.state = "done" /\ GzipOutermost /\ ~HasGzipToken(AcceptEncodingOf(last)))
    => DelegatedUnmodified(last)

\* C10, amended: a request whose Accept-Encoding value does not contain the
\* substring gzip (no header included) is delegated with the original writer
\* and the unmodified request: no Content-Encoding, Accept-Encoding not
\* rewritten, the body uncompressed.
C10_NoGzipSubstring ==
    (last.state = "done" /\ GzipOutermost /\ ~Contains(AcceptEncodingOf(last), "gzip"))
    => DelegatedUnmodified(last)

C10_Witness ==
    /\ last.state = "done" /\ config.chain = <<"gzip">>
    /\ last.req.header["Accept-Encoding"] = <<"deflate, br">>
    /\ last.w.body = <<[enc |-> "identity", data |-> "hello"]>>
    /\ last.w.header["Vary"] = <<"Accept-Encoding">>

----------------------------------------------------------------------------
(* Properties of GzipHandler around any wrapped handler *)

\* an exchange through a chain whose outermost handler is GzipHandler
ThroughGzip(x) == x.state = "done" /\ GzipOutermost

\* the calls of the trace named ev, in order
RECURSIVE Calls(_, _)
Calls(trace, ev) ==
    IF trace = <<>> THEN <<>>
    ELSE IF Head(trace).ev = ev THEN <<Head(trace)>> \o Calls(Tail(trace), ev)
    ELSE Calls(Tail(trace), ev)

\* how often v occurs in the sequence s
Count(s, v) == Cardinality({i \in 1..Len(s) : s[i] = v})

\* the Vary values of the response when GzipHandler called the wrapped handler
VaryAtDelegation(x) == Calls(x.trace, "h.ServeHTTP")[1].header["Vary"]

\* C11: on every request through GzipHandler, compressed or not, the Vary
\* values of the response contain Accept-Encoding exactly once, and it precedes
\* every Vary value the wrapped handler adds: a wrapped handler adding
\* Vary: Foo yields the list Accept-Encoding, Foo.
C11_VaryAcceptEncodingFirst ==
    ThroughGzip(last) =>
        /\ Count(last.w.header["Vary"], "Accept-Encoding") = 1
        /\ VaryAtDelegation(last) = <<"Accept-Encoding">>
        /\ SubSeq(last.w.header["Vary"], 1, 1) = VaryAtDelegation(last)
        /\ config.chain = InlineChain =>
              last.w.header["Vary"] = IF config.inline.varyFoo
                                      THEN <<"Accept-Encoding", "Foo">>
                                      ELSE <<"Accept-Encoding">>

\* the same request, first without gzip and then with it, through a wrapped
\* handler that adds Vary: Foo
C11_Witness ==
    /\ Repeated /\ config.chain = InlineChain /\ config.inline.varyFoo
    /\ prev.gz.state = "none" /\ last.gz.state = "closed"
    /\ prev.w.header["Vary"] = <<"Accept-Encoding", "Foo">>
    /\ last.w.header["Vary"] = <<"Accept-Encoding", "Foo">>

\* the chunks of a body between its first and its last
Middle(body) == SubSeq(body, 2, Len(body) - 1)

\* a reader of the body finds one gzip stream and nothing else: the header, the
\* compressed data, and the trailer whose checksum and size are those of the data
GunzipOk(body) ==
    /\ Len(body) >= 2
    /\ body[1].enc = "gzip-header"
    /\ body[Len(body)].enc = "gzip-trailer"
    /\ \A i \in 2..(Len(body) - 1) : body[i].enc = "deflate"
    /\ body[Len(body)].data = ConcatData(Middle(body))

\* what the reader of the stream gets
Gunzip(body) == ConcatData(Middle(body))

RECURSIVE Concat(_)
Concat(chunks) == IF chunks = <<>> THEN "" ELSE Head(chunks) \o Concat(Tail(chunks))

\* the request asks for gzip as GzipHandler reads it
WantsGzip(x) == Contains(AcceptEncodingOf(x), "gzip")

\* C12: for a gzip-accepting request, whatever sequence of writes the wrapped
\* handler makes through the gzip-wrapped writer, the underlying writer holds,
\* once the request completes, a single correctly terminated gzip stream whose
\* decompression is the concatenation of the written chunks in write order.
C12_WritesFormOneStream ==
    (ThroughGzip(last) /\ WantsGzip(last)) =>
        /\ GunzipOk(last.w.body)
        /\ config.chain = InlineChain => Gunzip(last.w.body) = Concat(config.inline.writes)
        /\ config.chain = <<"gzip">> => Gunzip(last.w.body) = config.response

\* the double write of the test
C12_Witness ==
    /\ ThroughGzip(last) /\ config.chain = InlineChain
    /\ config.inline.writes = <<"foo", "bar">>
    /\ last.req.header["Accept-Encoding"] = <<"gzip">>
    /\ last.w.body = <<[enc |-> "gzip-header", data |-> ""],
                       [enc |-> "deflate", data |-> "foobar"],
                       [enc |-> "gzip-trailer", data |-> "foobar"]>>

\* the calls GzipHandler makes or awaits, by name and in order
RECURSIVE GzipCalls(_)
GzipCalls(trace) ==
    IF trace = <<>> THEN <<>>
    ELSE IF Head(trace).ev \in {"gzip.NewWriter", "h.ServeHTTP", "h.return", "h.panic", "gz.Close"}
    THEN <<Head(trace).ev>> \o GzipCalls(Tail(trace))
    ELSE GzipCalls(Tail(trace))

\* C13: for a gzip-accepting request the compressor GzipHandler creates is
\* closed exactly once, after the wrapped handler has finished, whether it
\* returned normally, returned early or panicked; for a request that does not
\* accept gzip no compressor is created.
C13_CompressorClosedOnce ==
    ThroughGzip(last) =>
        IF WantsGzip(last)
        THEN /\ GzipCalls(last.trace) =
                  <<"gzip.NewWriter", "h.ServeHTTP",
                    IF last.panicked THEN "h.panic" ELSE "h.return", "gz.Close">>
             /\ last.gz.state = "closed"
        ELSE /\ GzipCalls(last.trace) = <<"h.ServeHTTP">>
             /\ last.gz.state = "none"

\* the wrapped handler panics after a write, and the compressor is closed
C13_Witness ==
    /\ ThroughGzip(last) /\ WantsGzip(last) /\ config.chain = InlineChain
    /\ config.inline.writes = <<"foo">>
    /\ last.panicked
    /\ GzipCalls(last.trace) = <<"gzip.NewWriter", "h.ServeHTTP", "h.panic", "gz.Close">>
    /\ last.gz.state = "closed"

----------------------------------------------------------------------------
(* Properties of the assembled asset chain *)

AssetChain == <<"gzip", "security", "html5">>

\* a gzip-accepting request for a static asset that revalidates successfully
RevalidatesCompressed(x) ==
    /\ x.state = "done" /\ config.chain = AssetChain
    /\ WantsGzip(x)
    /\ AssetFound(UrlPathOf(x))
    /\ x.req.header["If-None-Match"] = <<EtagOf(x)>>

\* C14: in the assembled asset chain a gzip-accepting request for a static
\* asset whose If-None-Match equals the computed ETag gets status 304 and no
\* body: no bytes at all, those emitted when the compressor is closed included,
\* are written to the underlying response writer, and the terminal handler
\* is not invoked.
C14_NotModifiedWritesNothing ==
    RevalidatesCompressed(last) =>
        /\ last.w.code = 304
        /\ last.w.body = <<>>
        /\ last.terminal = <<>>

\* the 304 that is followed by the bytes of an empty gzip stream
C14_Witness ==
    /\ RevalidatesCompressed(last)
    /\ UrlPathOf(last) = "scripts/vendor.js"
    /\ last.w.code = 304
    /\ last.terminal = <<>>
    /\ last.w.header["Content-Encoding"] = <<"gzip">>
    /\ last.w.body = <<[enc |-> "gzip-header", data |-> ""],
                       [enc |-> "deflate", data |-> ""],
                       [enc |-> "gzip-trailer", data |-> ""]>>

----------------------------------------------------------------------------
(* Properties of the construction *)

\* the subcontexts whose configured index document the asset lookup fails for
Unresolved == {k \in Keys : ~AssetFound(config.subcontextMap[k])}

\* C15: the construction of the HTML5 handler is all-or-nothing. If the asset
\* lookup fails for the index document of any subcontext, the constructor
\* returns the error and no handler, whatever the order the map is ranged over
\* and however many other subcontexts resolved, and the server construction
\* returns the error without registering any asset route; a handler is
\* returned only when every subcontext's index document resolved.
C15_ConstructionAllOrNothing ==
    server.state # "none" =>
        /\ Unresolved # {} =>
              /\ handler = [state |-> "error", subcontextData |-> NoData, subcontexts |-> <<>>]
              /\ server = [state |-> "error", routes |-> {}]
        /\ handler.state = "ready" =>
              /\ Unresolved = {}
              /\ DOMAIN handler.subcontextData = Keys

\* the root's index document resolves, the java one does not
C15_Witness ==
    /\ Keys = {"", "java"} /\ Unresolved = {"java"}
    /\ handler.state = "error"
    /\ server = [state |-> "error", routes |-> {}]

\* sub occurs in str
Occurs(str, sub) ==
    \E i \in 1..(Len(str) - Len(sub) + 1) : SubSeq(str, i, i + Len(sub) - 1) = sub

\* the elements of a sequence
Range(seq) == {seq[i] : i \in 1..Len(seq)}

\* the URLs of the configured extension scripts and stylesheets
ExtensionURLs == Range(config.extensionScripts) \cup Range(config.extensionStylesheets)

\* C16: extension script and stylesheet tags are injected only into the derived
\* index document of the root subcontext (the empty key): it contains the
\* HTML-escaped form of every configured script URL and stylesheet URL, and the
\* derived document of every other subcontext contains none of them.
C16_ExtensionsOnlyInRoot ==
    (handler.state = "ready" /\ UsesHTML5(config)) =>
        \A k \in DOMAIN handler.subcontextData :
            IF k = ""
            THEN /\ \A u \in Range(config.extensionScripts) :
                       Occurs(handler.subcontextData[k],
                                "<script src=\"" \o EscapeString(u) \o "\"></script>")
                 /\ \A u \in Range(config.extensionStylesheets) :
                       Occurs(handler.subcontextData[k],
                                "<link rel=\"stylesheet\" href=\"" \o EscapeString(u) \o "\">")
                 /\ \A u \in ExtensionURLs :
                       EscapeString(u) # u => ~Occurs(handler.subcontextData[k], u)
            ELSE /\ \A u \in ExtensionURLs :
                       /\ ~Occurs(handler.subcontextData[k], EscapeString(u))
                       /\ ~Occurs(handler.subcontextData[k], u)
                 /\ ExtensionURLs # {} =>
                       /\ ~Occurs(handler.subcontextData[k], "<script")
                       /\ ~Occurs(handler.subcontextData[k], "<link")

\* a root and two nested subcontexts, two scripts and a stylesheet configured
C16_Witness ==
    /\ handler.state = "ready"
    /\ DOMAIN handler.subcontextData = {"", "java", "java/foo"}
    /\ Len(config.extensionScripts) = 2 /\ Len(config.extensionStylesheets) = 1
    /\ Occurs(handler.subcontextData[""],
                "<script src=\"https://e.com/a.js?x=1&amp;y=2\"></script>")
    /\ Occurs(handler.subcontextData[""],
                "<link rel=\"stylesheet\" href=\"https://e.com/&lt;a&gt;.css\">")
    /\ handler.subcontextData["java"] = "<head><base href=\"/java/\"></head><body>java</body>"

----------------------------------------------------------------------------
(* Properties of the configuration document *)

\* the document has been generated
Generated == configHandler.state = "ready"

\* every string among the arguments: the string fields of the configuration,
\* the version, the keys and values of the extension properties
StringValues(args) ==
    {args.config[f] : f \in StringFields}
    \cup {args.version.ConsoleVersion}
    \cup {pr.Key : pr \in Range(args.extensionProps.ExtensionProperties)}
    \cup {pr.Value : pr \in Range(args.extensionProps.ExtensionProperties)}

\* C17: every string-valued field interpolated into the generated document
\* (every string field of WebConsoleConfig, the URL fields included, the
\* version, every extension property key and value) passes through the
\* JavaScript string-literal escaper before it is emitted: no string field is
\* written into the document unescaped.
C17_EveryStringEscaped ==
    Generated =>
        \A v \in StringValues(configHandler.args) :
            JSEscapeString(v) # v =>
                /\ Occurs(configHandler.content, JSEscapeString(v))
                /\ ~Occurs(configHandler.content, v)

\* the document in which adminConsoleURL ends its string literal early
C17_Witness ==
    /\ Generated
    /\ configHandler.args.config.AdminConsoleURL = "\";alert('x');//"
    /\ Occurs(configHandler.content, "adminConsoleURL: \"\";alert('x');//\",")

\* C18: the document is rendered once, when GeneratedConfigHandler is called;
\* afterwards every request to the returned handler gets the same bytes, with
\* Cache-Control: no-cache, no-store and Content-Type: application/javascript,
\* whatever its method, path and headers.
C18_SameDocumentEveryRequest ==
    /\ Generated => configHandler.content = GeneratedConfigHandler(configHandler.args).content
    /\ \A x \in {prev, last} :
          x.state = "done" =>
              /\ Generated
              /\ x.w.code = 200
              /\ x.w.body = <<[enc |-> "identity", data |-> configHandler.content]>>
              /\ x.w.header["Cache-Control"] = <<"no-cache, no-store">>
              /\ x.w.header["Content-Type"] = <<"application/javascript">>
    /\ (prev.state = "done" /\ last.state = "done") => prev.w = last.w

\* two requests that differ in method, path and headers
C18_Witness ==
    /\ prev.state = "done" /\ last.state = "done"
    /\ prev.req.method = "GET" /\ last.req.method = "POST"
    /\ prev.req.path = "/config.js" /\ last.req.path = "/x"
    /\ prev.req.header["Accept-Encoding"] = <<>>
    /\ last.req.header["Accept-Encoding"] = <<"gzip">>
    /\ Len(configHandler.args.extensionProps.ExtensionProperties) = 2
    /\ prev.w.body = last.w.body
    /\ Occurs(last.w.body[1].data, "window.OPENSHIFT_EXTENSION_PROPERTIES")

\* C19: the generated document contains the limitRequestOverrides sub-object
\* if and only if WebConsoleConfig.LimitRequestOverrides is not nil; with nil
\* the string limitRequestOverrides does not occur in the document, and
\* window.OPENSHIFT_CONFIG is defined all the same.
C19_OverridesIffPresent ==
    Generated =>
        /\ Occurs(configHandler.content, "window.OPENSHIFT_CONFIG = {")
        /\ Occurs(configHandler.content, "limitRequestOverrides")
               <=> configHandler.args.config.LimitRequestOverrides # <<>>
        /\ configHandler.args.config.LimitRequestOverrides # <<>> =>
              Occurs(configHandler.content,
                     "limitRequestOverrides: {\n\tlimitCPUToMemoryPercent: "
                        \o FormatInt(configHandler.args.config.LimitRequestOverrides[1].LimitCPUToMemoryPercent)
                        \o ",\n\tcpuRequestToLimitPercent: "
                        \o FormatInt(configHandler.args.config.LimitRequestOverrides[1].CPURequestToLimitPercent)
                        \o ",\n\tmemoryRequestToLimitPercent: "
                        \o FormatInt(configHandler.args.config.LimitRequestOverrides[1].MemoryRequestToLimitPercent)
                        \o "\n  },")

\* the document of the template test
C19_Witness ==
    /\ Generated
    /\ configHandler.args = ZeroArgs
    /\ Occurs(configHandler.content, "OPENSHIFT_CONFIG")
    /\ ~Occurs(configHandler.content, "limitRequestOverrides")

----------------------------------------------------------------------------
(* Properties of the routes of the server *)

\* the five fixed security headers, each with its one value
SecurityHeadersSet(header) ==
    /\ header["X-Content-Type-Options"] = <<"nosniff">>
    /\ header["X-XSS-Protection"] = <<"1; mode=block">>
    /\ header["X-Frame-Options"] = <<"DENY">>
    /\ header["X-DNS-Prefetch-Control"] = <<"off">>
    /\ header["Referrer-Policy"] = <<"strict-origin-when-cross-origin">>

\* C20: every response of the assembled asset chain and of the config.js
\* route (fallback index document, 304 Not Modified, delegated static asset
\* alike) carries the five fixed security headers X-Content-Type-Options:
\* nosniff, X-XSS-Protection: 1; mode=block, X-Frame-Options: DENY,
\* X-DNS-Prefetch-Control: off and Referrer-Policy:
\* strict-origin-when-cross-origin, set before the wrapped handler runs.
C20_SecurityHeadersOnEveryResponse ==
    last.state = "done" =>
        /\ SecurityHeadersSet(last.w.header)
        /\ Len(Calls(last.trace, "security.h.ServeHTTP")) = 1
        /\ SecurityHeadersSet(Calls(last.trace, "security.h.ServeHTTP")[1].header)
        /\ \A i \in 1..Len(last.terminal) : SecurityHeadersSet(last.terminal[i])
        /\ last.req.path = "/config.js" => Len(last.terminal) = 1

\* a 304 of the asset chain
C20_Witness ==
    /\ last.state = "done"
    /\ last.req.path = "/scripts/vendor.js"
    /\ last.w.code = 304
    /\ last.terminal = <<>>
    /\ SecurityHeadersSet(last.w.header)

----------------------------------------------------------------------------
(* Properties of HTML5ModeHandler's delegation *)

\* the names a Vary header value lists
VaryNames(header) ==
    IF HGet(header, "Vary") = "" THEN <<>> ELSE VarySplit(HGet(header, "Vary"))

\* C21: whenever HTML5ModeHandler delegates a request to the terminal handler
\* it has first set Cache-Control: public, max-age=0, must-revalidate and an
\* ETag equal to generateEtag(request, version, names parsed from the
\* response's Vary header): the terminal handler is never invoked without both
\* headers already on the response.
C21_CachingHeadersBeforeDelegation ==
    Served =>
        \A i \in 1..Len(last.terminal) :
            /\ last.terminal[i]["Cache-Control"] = <<"public, max-age=0, must-revalidate">>
            /\ last.terminal[i]["ETag"] =
                   <<generateEtag(last.r, config.version, VaryNames(last.terminal[i]))>>

\* the asset request of the cache test, delegated under GzipHandler
C21_Witness ==
    /\ Served /\ config.chain = <<"gzip", "html5">>
    /\ UrlPathOf(last) = "scripts/vendor.js"
    /\ last.req.header["Accept-Encoding"] = <<"gzip">>
    /\ last.req.header["If-None-Match"] = <<>>
    /\ Len(last.terminal) = 1
    /\ last.terminal[1]["ETag"] = <<"W/\"1234_677a6970\"">>

\* how many of the conditions hold
HowMany(conds) == Cardinality({i \in 1..Len(conds) : conds[i]})

\* C23: the handler built by HTML5ModeHandler takes exactly one of three
\* outcomes per request: it writes one fallback index document, or it writes
\* the status 304 and nothing else (no bytes, no caching headers), or it
\* calls the terminal handler; the terminal handler is called at most once
\* and never together with a fallback or a 304.
C23_ExactlyOneOutcome ==
    Served =>
        /\ Len(last.fallback) <= 1
        /\ Len(last.terminal) <= 1
        /\ HowMany(<<Len(last.fallback) = 1, last.w.code = 304, Len(last.terminal) = 1>>) = 1
        /\ Len(last.fallback) = 1 => Plain(last) = handler.subcontextData[last.fallback[1]]
        /\ last.w.code = 304 =>
              /\ Plain(last) = ""
              /\ last.w.header["Cache-Control"] = <<>>
              /\ last.w.header["ETag"] = <<>>

C23_Witness ==
    /\ Served /\ config.chain = <<"html5">>
    /\ prev.state = "done"
    /\ UrlPathOf(last) = "scripts/vendor.js"
    /\ last.w.code = 304 /\ last.w.body = <<>>
    /\ last.fallback = <<>> /\ last.terminal = <<>>

\* C24: when the subcontext map has the empty (root) key, every request whose
\* path is not in the asset store is answered with the index document of some
\* subcontext and status 200: the terminal handler is not reached, the status
\* is never 404, and the response carries no ETag.
C24_RootCatchesEveryMiss ==
    (Served /\ "" \in Keys /\ ~AssetFound(UrlPathOf(last))) =>
        /\ Len(last.fallback) = 1
        /\ last.fallback[1] \in Keys
        /\ Plain(last) = handler.subcontextData[last.fallback[1]]
        /\ last.w.code = 200 /\ last.w.wroteHeader
        /\ last.terminal = <<>>
        /\ last.w.header["ETag"] = <<>>

C24_Witness ==
    /\ Served /\ config.chain = <<"gzip", "security", "html5">>
    /\ Keys = {"", "java"}
    /\ UrlPathOf(last) = "javascript-thing"
    /\ last.req.header["If-None-Match"] = <<"W/\"1234_\"">>
    /\ last.fallback = <<"">>
    /\ last.w.code = 200

----------------------------------------------------------------------------
(* Properties of the gzip wrapper's content-type sniffing *)

\* C26: content-type sniffing in the gzip-wrapped writer happens at most once
\* per request, on the first Write only: the Content-Type is set from the
\* uncompressed first chunk if it was unset and left unchanged if it was set;
\* no later Write changes the Content-Type, and the sniff-done flag goes from
\* false to true on the first Write and never back.
C26_SniffOnceOnFirstWrite ==
    last.state = "done" =>
        /\ last.sniffDone = (Len(last.gzWrites) > 0)
        /\ \A i \in 1..Len(last.gzWrites) :
              LET wr == last.gzWrites[i]
              IN  IF i = 1
                  THEN /\ ~wr.before.sniffDone /\ wr.after.sniffDone
                       /\ wr.after.contentType =
                              IF wr.before.contentType = <<>>
                              THEN <<DetectContentType(wr.data)>>
                              ELSE wr.before.contentType
                  ELSE /\ wr.before.sniffDone /\ wr.after.sniffDone
                       /\ wr.after.contentType = wr.before.contentType
                       /\ wr.before.contentType = last.gzWrites[i - 1].after.contentType
        /\ Len(last.gzWrites) > 0 =>
              last.w.header["Content-Type"] = last.gzWrites[1].after.contentType

\* two writes with a Content-Type set beforehand: neither changes it
C26_WitnessPreset ==
    /\ last.state = "done" /\ config.chain = InlineChain
    /\ config.inline.contentType = "application/javascript"
    /\ config.inline.writes = <<"foo", "bar">>
    /\ Len(last.gzWrites) = 2
    /\ last.w.header["Content-Type"] = <<"application/javascript">>
    /\ last.sniffDone

\* two writes without a Content-Type: the first chunk decides it
C26_Witness ==
    /\ last.state = "done" /\ config.chain = InlineChain
    /\ config.inline.contentType = ""
    /\ config.inline.writes = <<"<html>", "foo">>
    /\ Len(last.gzWrites) = 2
    /\ last.w.header["Content-Type"] = <<"text/html; charset=utf-8">>

----------------------------------------------------------------------------
(* Properties of the ETag under several Vary lines *)

\* the names of all the Vary lines of a response, in order
RECURSIVE AllVaryNames(_)
AllVaryNames(lines) ==
    IF lines = <<>> THEN <<>> ELSE VarySplit(Head(lines)) \o AllVaryNames(Tail(lines))

\* the exchange reached the ETag branch and the terminal handler
Tagged(x) == x.state = "done" /\ Len(x.terminal) = 1

\* C25: the ETag HTML5ModeHandler computes covers every header name present
\* in the response's Vary header when the handler runs, in order, including
\* the names upstream handlers added as Vary lines of their own: two requests
\* for the same path that differ in the value of any of these headers get
\* different ETags.
C25_EtagCoversEveryVaryLine ==
    (Tagged(last) /\ Tagged(prev)) =>
        /\ last.w.header["ETag"] =
               <<generateEtag(last.r, config.version, AllVaryNames(last.terminal[1]["Vary"]))>>
        /\ (\E i \in 1..Len(AllVaryNames(last.terminal[1]["Vary"])) :
                 HGet(last.r.header, AllVaryNames(last.terminal[1]["Vary"])[i]) #
                 HGet(prev.r.header, AllVaryNames(last.terminal[1]["Vary"])[i]))
              => last.w.header["ETag"] # prev.w.header["ETag"]

\* Vary: Accept-Encoding and Vary: Foo as two lines, two requests that differ
\* in Foo only, and one ETag for both
C25_Witness ==
    /\ Tagged(last) /\ Tagged(prev)
    /\ config.chain = <<"gzip", "vary", "html5">>
    /\ last.terminal[1]["Vary"] = <<"Accept-Encoding", "Foo">>
    /\ last.r.header["Accept-Encoding"] = prev.r.header["Accept-Encoding"]
    /\ last.r.header["Foo"] = <<"1">> /\ prev.r.header["Foo"] = <<"2">>
    /\ last.w.header["ETag"] = prev.w.header["ETag"]

----------------------------------------------------------------------------
(* Properties of WithAssetServerRedirect *)

\* the status line and the Location of a redirect
Redirected(x) == x.w.code = 302 /\ x.w.header["Location"] # <<>>

\* C27: WithAssetServerRedirect produces exactly one response per request:
\* for a request with path "/" it issues the 302 redirect to the asset public
\* URL and does not invoke the wrapped handler; for every other path it
\* issues no redirect and invokes the wrapped handler exactly once.
C27_RedirectOrDelegate ==
    last.state = "done" =>
        IF last.req.path = "/"
        THEN /\ Redirected(last)
             /\ last.w.header["Location"] = <<config.contextRoot>>
             /\ Calls(last.trace, "redirect.handler.ServeHTTP") = <<>>
        ELSE /\ ~Redirected(last)
             /\ Len(Calls(last.trace, "redirect.handler.ServeHTTP")) = 1

\* the request for "/" is redirected and then served by the wrapped handler
\* as well: the index document follows the redirect's note
C27_Witness ==
    /\ last.state = "done" /\ server.state = "serving"
    /\ last.req.path = "/"
    /\ Redirected(last)
    /\ Len(Calls(last.trace, "redirect.handler.ServeHTTP")) = 1
    /\ last.fallback = <<"">>
    /\ Len(last.w.body) >= 2

----------------------------------------------------------------------------
(* Properties of the start command *)

\* the names of the calls the command has made, in order
StepNames == [i \in 1..Len(cmd.steps) |-> cmd.steps[i].name]

\* the command has made the call
Called(name) == \E i \in 1..Len(cmd.steps) : cmd.steps[i].name = name

\* the error the call returned
ErrorOf(name) == (CHOOSE st \in Range(cmd.steps) : st.name = name).err

ConfigLoaded == cmd.o.WebConsoleConfig # <<>>

\* C28: the start command runs Complete, then Validate, then
\* RunWebConsoleServer, strictly in that order, and stops at the first error:
\* the server is never started when no configuration was loaded or when the
\* validation reports at least one error, while warnings alone (a missing
\* loggingPublicURL or metricsPublicURL) never prevent the startup.
C28_CompleteValidateRun ==
    cmd.pc # "none" =>
        /\ StepNames = SubSeq(<<"Complete", "Validate", "RunWebConsoleServer">>, 1, Len(cmd.steps))
        /\ \A i \in 1..(Len(cmd.steps) - 1) : cmd.steps[i].err = ""
        /\ (cmd.pc = "failed") = (cmd.steps # <<>> /\ cmd.steps[Len(cmd.steps)].err # "")
        /\ (server.state = "serving") = (cmd.pc = "serving")
        /\ (Called("RunWebConsoleServer") \/ server.state # "none") =>
              ConfigLoaded /\ cmd.results.Errors = <<>>
        /\ (Called("Validate") /\ ConfigLoaded /\ cmd.results.Errors = <<>>) =>
              ErrorOf("Validate") = ""

\* a configuration without loggingPublicURL and metricsPublicURL: two
\* warnings, and the server runs
C28_Witness ==
    /\ cmd.pc = "serving" /\ server.state = "serving"
    /\ Len(cmd.steps) = 3
    /\ Len(cmd.results.Warnings) = 2
    /\ cmd.o.WebConsoleConfig[1].ClusterInfo.LoggingPublicURL = ""
    /\ cmd.o.WebConsoleConfig[1].ClusterInfo.MetricsPublicURL = ""

\* the results of the validation that concern the fields below fld
Under2(results, fld) ==
    [Errors |-> SelectSeq(results.Errors, LAMBDA e : HasPrefix(e.Field, fld)),
     Warnings |-> SelectSeq(results.Warnings, LAMBDA e : HasPrefix(e.Field, fld))]

\* C30: validateFeatures accepts InactivityTimeoutMinutes exactly when it is
\* 0 (the feature disabled) or at least MinimumInactivityTimeoutMinutes (5):
\* it returns exactly one error for every other value, the negative ones
\* included, and no error and no warning otherwise.
C30_TimeoutZeroOrAtLeastMinimum ==
    (cmd.pc # "none" /\ Called("Validate") /\ ConfigLoaded) =>
        LET t == cmd.o.WebConsoleConfig[1].Features.InactivityTimeoutMinutes
            features == Under2(cmd.results, "config.features")
        IN  /\ features.Warnings = <<>>
            /\ IF t = 0 \/ t >= 5
               THEN features.Errors = <<>>
               ELSE /\ Len(features.Errors) = 1
                    /\ features.Errors[1].Field = "config.features.inactivityTimeoutMinutes"
                    /\ ErrorOf("Validate") # ""

\* a negative timeout
C30_Witness ==
    /\ cmd.pc = "failed" /\ Called("Validate") /\ ConfigLoaded
    /\ cmd.o.WebConsoleConfig[1].Features.InactivityTimeoutMinutes = -1
    /\ cmd.results.Errors =
          <<[Type |-> "Invalid", Field |-> "config.features.inactivityTimeoutMinutes",
             Detail |-> "the minimum acceptable inactivity timeout value is 5 minutes"]>>

----------------------------------------------------------------------------
(* Properties of AssetServerConfig.Complete *)

\* the master answered the version request with an object
Answered(reply) == reply.err = "" /\ HasPrefix(reply.body, "{")

\* Complete gets as far as its last step
ReachesBroker(extra, client) ==
    /\ client.newForConfig = ""
    /\ extra.KubeVersion # "" \/ Answered(client.version)
    /\ extra.OpenShiftVersion # "" \/ Answered(client.openshiftVersion)

\* C29: when TemplateServiceBrokerEnabled is not set beforehand, Complete
\* resolves it three ways: true if the lookup of the broker succeeds, false if
\* it fails with NotFound, and for any other error Complete returns that error
\* with an empty completed config; values set beforehand (KubeVersion,
\* OpenShiftVersion, TemplateServiceBrokerEnabled) are never overwritten and
\* cause no lookup.
C29_BrokerThreeWaysPresetsKept ==
    completeCall.state = "done" =>
        LET extra == completeCall.extra
            client == completeCall.client
            out == completeCall.result
        IN  /\ (extra.TemplateServiceBrokerEnabled = <<>> /\ ReachesBroker(extra, client)) =>
                  CASE client.broker = "" ->
                          /\ out.err = "" /\ out.cfg # <<>>
                          /\ out.cfg[1].TemplateServiceBrokerEnabled = <<TRUE>>
                    [] client.broker = "NotFound" ->
                          /\ out.err = "" /\ out.cfg # <<>>
                          /\ out.cfg[1].TemplateServiceBrokerEnabled = <<FALSE>>
                    [] OTHER ->
                          /\ out.err = client.broker /\ out.cfg = <<>>
            /\ extra.TemplateServiceBrokerEnabled # <<>> =>
                  /\ BrokerPath \notin Range(out.lookups)
                  /\ out.receiver.TemplateServiceBrokerEnabled = extra.TemplateServiceBrokerEnabled
            /\ extra.KubeVersion # "" =>
                  /\ VersionPath \notin Range(out.lookups)
                  /\ out.receiver.KubeVersion = extra.KubeVersion
            /\ extra.OpenShiftVersion # "" =>
                  /\ OpenShiftVersionPath \notin Range(out.lookups)
                  /\ out.receiver.OpenShiftVersion = extra.OpenShiftVersion
            /\ out.cfg # <<>> => out.cfg[1] = out.receiver

\* KubeVersion set beforehand, the broker lookup forbidden: two lookups, the
\* error returned, no completed config
C29_Witness ==
    /\ completeCall.state = "done"
    /\ completeCall.extra.KubeVersion = "v1.8.0"
    /\ completeCall.extra.TemplateServiceBrokerEnabled = <<>>
    /\ completeCall.client.broker = "Forbidden"
    /\ completeCall.result.lookups = <<OpenShiftVersionPath, BrokerPath>>
    /\ completeCall.result.err = "Forbidden"
    /\ completeCall.result.cfg = <<>>
    /\ completeCall.result.receiver.OpenShiftVersion = "v3.9.0"

\* C22: requests in flight together do not interfere.  Every completed response
\* is the one the chain gives that request when it is served alone by the
\* state fixed at construction; no wrapper (compressor and sniff-done flag) is
\* ever used by two calls; and no step of a call writes the configuration, the
\* asset handler's derived state, the config.js buffer or the routes.
C22_NoInterference ==
    /\ [](\A p \in DOMAIN procs :
             procs[p].pc = "done" =>
                 Record(procs[p].req, procs[p].ctx)
                     = HandlerChainServe(server, config, handler, configHandler,
                                         procs[p].req))
    /\ [](\A i \in DOMAIN wrappers : Cardinality(wrappers[i].users) <= 1)
    /\ [][/\ config' = config /\ handler' = handler
           /\ configHandler' = configHandler /\ server' = server]_vars

\* two different requests were in flight together, both went through the gzip
\* branch, each on its own wrapper that holds its own compressed body, and
\* both have completed
C22_Witness ==
    /\ DOMAIN procs = ProcIds
    /\ procs[1].pc = "done" /\ procs[2].pc = "done"
    /\ procs[1].req # procs[2].req
    /\ procs[2].among = {1}
    /\ wrappers[1].users = {1} /\ wrappers[2].users = {2}
    /\ wrappers[1].gz.state = "closed" /\ wrappers[2].gz.state = "closed"
    /\ wrappers[1].gz.buf # wrappers[2].gz.buf
    /\ wrappers[1].sniffDone # wrappers[2].sniffDone

====
